---------------------------- MODULE Spec2Model ----------------------------
(***************************************************************************)
(* A model of the cloudy data-center simulator: the hypervisor allocator   *)
(* VmmSpaceShared, the guest scheduler OsTimeShared, the application cycle *)
(* accounting App.resume, the placement engine VmpFirstFit and the cluster *)
(* control plane ControlPlaneRoundRobin.                                   *)
(*                                                                         *)
(* Python values are encoded as follows.  A GPU attribute is a sequence:   *)
(* None is <<-1>>, the empty tuple () is <<>>, a profile (c, m) is         *)
(* <<c, m>>.  EXPIRATION None is -1.  List and tuple indices are 1-based   *)
(* here and 0-based in the source; core and GPU block numbers keep the     *)
(* source's 0-based values.  Objects (Vm, Pm, App, Container, Deployment)  *)
(* are small integers.  They hash by identity, so dict keys are the        *)
(* integers; the == that @dataclass generates compares fields, and list    *)
(* membership and list.remove use it.  The VMs and the applications of     *)
(* the scenario differ in their fields, so for them == is identity;        *)
(* containers built from one blueprint are equal.                          *)
(***************************************************************************)
EXTENDS Integers, Sequences, FiniteSets, TLC

-----------------------------------------------------------------------------
(* Bounds of the model *)

\* longest list of VMs handed to one allocate / deallocate call
MaxBatch == 2
\* most cycles offered on one core by a direct call of App.resume
MaxCycles == 2
\* longest duration of one resume step
MaxDuration == 2
\* last tick the clock reaches
MaxNow == 1
\* most Container objects alive at a time
MaxContainers == 3
\* largest replica count a scale or delete command asks for
MaxReplicas == 2
\* most scale requests and degraded entries waiting at a time
MaxQueue == 1
\* most CPU or RAM a node's accounting may exceed the node's size by
MaxSurplus == 1
\* the number of events put on an event queue
MaxEvents == 4
\* the largest tick of an event and of a call of EventQueue.get
MaxTick == 2
\* the number of items in a user's list of requests
MaxRequests == 3
\* the tick at which the simulation clock stops
MaxClock == 3
\* the longest duration given to Simulation.run
MaxRun == 2
\* most guests that hold GPU blocks of one host at a time
MaxGuests == 5
\* most GPUs of the data center that PlacementMaxProfile chooses among
MaxGpus == 2

-----------------------------------------------------------------------------
(* The scenario: the objects built by the set-up code *)

\* Pm.CPU of each host: cycles per tick of every core
PM_CPU == << <<1>>, <<2, 1>> >>
\* Pm.RAM of each host
PM_RAM == <<1, 3>>
\* Pm.GPU of each host: a tuple of (compute engines, memory blocks)
PM_GPU == << <<>>, << <<7, 8>> >> >>
\* DataCenter.HOSTS, in its fixed order
HOSTS == <<1, 2>>

\* Vm.CPU, Vm.RAM and Vm.GPU of each virtual machine
VM_CPU == <<1, 1, 2, 3, 3>>
VM_RAM == <<1, 2, 1, 3, 3>>
VM_GPU == << <<1, 2>>, <<3, 4>>, <<-1>>, <<>>, <<-1>> >>
\* the VMs that requests ask the data center to place
REQUESTED == {1, 2, 3}
\* Controller.NODES: the VMs that form the cluster
NODES == <<4, 5>>

\* Deployment.CONTAINER_SPECS of each deployment, with the CPU, RAM and GPU
\* entries of every blueprint
CONTAINER_SPECS ==
    << << [CPU |-> <<1, 1>>, RAM |-> <<1, 1>>, GPU |-> <<>>] >>,
       << [CPU |-> <<1, 2>>, RAM |-> <<1, 1>>, GPU |-> <<-1>>],
          [CPU |-> <<1, 1>>, RAM |-> <<1, 2>>, GPU |-> <<-1>>] >>,
       << [CPU |-> <<1, 1>>, RAM |-> <<1, 1>>, GPU |-> <<-1>>] >> >>
\* the GPU entry of every blueprint when the deployments are written for
\* FractionalGPUControlPlaneRoundRobin: a fraction of a GPU, in quarters
GPU_FRACTION == << <<0>>, <<3, 3>>, <<2>> >>
\* a whole GPU, 1.0, in quarters
FULL_GPU == 4
\* Deployment.replicas of each deployment when it is created
REPLICAS == <<2, 1, 3>>

\* App.LENGTH and App.EXPIRATION of each application
APP_LENGTH == << <<2, 1>>, <<1, 2>>, <<1, 2>> >>
APP_EXPIRATION == <<-1, 1, 1>>
\* the class of each application: an App, a Container and the Controller
APP_KIND == <<"app", "container", "controller">>
\* the applications that are scheduled on the requested VMs
GUEST_APPS == {1, 2}

Pms == 1..Len(PM_CPU)
Apps == 1..Len(APP_LENGTH)
Deployments == 1..Len(CONTAINER_SPECS)
Containers == 1..MaxContainers

\* the worker application that the controller schedules on the i-th node,
\* and container c, as entries of a scheduler's lists
WorkerApp(i) == Len(APP_LENGTH) + i
ContainerApp(c) == Len(APP_LENGTH) + Len(NODES) + c
Vms == 1..Len(VM_CPU)

STATE_ON == "ON"
STATE_OFF == "OFF"

-----------------------------------------------------------------------------
(* Python helpers *)

\* truth value of a GPU attribute: None and () are false
Truthy(gpu) == gpu # <<-1>> /\ gpu # <<>>

\* range(n) as a set
Range(n) == 0..(n - 1)

\* all sequences over S of length 1..n
SeqsUpTo(S, n) == UNION {[1..k -> S] : k \in 1..n}

\* x in list
InSeq(x, s) == \E i \in 1..Len(s) : s[i] = x

\* list.remove(x): drops the first occurrence
RemoveFirst(s, x) ==
    LET i == CHOOSE k \in 1..Len(s) : s[k] = x /\ \A j \in 1..(k - 1) : s[j] # x
    IN  SubSeq(s, 1, i - 1) \o SubSeq(s, i + 1, Len(s))

\* d[k] = v on a dict
Put(d, k, v) == [x \in DOMAIN d \cup {k} |-> IF x = k THEN v ELSE d[x]]

\* del d[k]
Del(d, k) == [x \in DOMAIN d \ {k} |-> d[x]]

\* the empty dict
EmptyDict == [x \in {} |-> 0]

RECURSIVE SumSeq(_)
SumSeq(s) == IF s = <<>> THEN 0 ELSE Head(s) + SumSeq(Tail(s))

Min(a, b) == IF a <= b THEN a ELSE b

-----------------------------------------------------------------------------
VARIABLES
    free_cpu,       \* VmmSpaceShared._free_cpu of each host
    vm_cpu,         \* VmmSpaceShared._vm_cpu of each host
    free_ram,       \* VmmSpaceShared._free_ram of each host
    free_gpu,       \* VmmSpaceShared._free_gpu of each host
    vm_gpu,         \* VmmSpaceShared._vm_gpu of each host
    guests,         \* Vmm._guests of each host
    state,          \* Vm.state of each VM
    running_apps,   \* Os._running_apps of each VM
    stopped_apps,   \* Os._stopped_apps of each VM
    vm_pm,          \* Vmp._vm_pm
    node_cpu,       \* ControlPlaneRoundRobin._node_cpu
    node_ram,       \* ControlPlaneRoundRobin._node_ram
    node_gpu,       \* ControlPlaneRoundRobin._node_gpu
    deployment_replicas,    \* ControlPlaneRoundRobin._deployment_replicas
    container_deployment,   \* ControlPlaneRoundRobin._container_deployment
    container_node,         \* ControlPlaneRoundRobin._container_node
    degraded_deployments,   \* ControlPlaneRoundRobin._degraded_deployments
    pending_deployments,    \* ControlPlane._pending_deployments
    scaled_deployments,     \* ControlPlane._scaled_deployments
    replicas,       \* Deployment.replicas of each deployment
    containers,     \* the Container objects alive: <<deployment, blueprint index>>
    deployed,       \* the containers for which _deploy_container returned True
    remained,       \* App._remained of each application
    has_resumed_once, \* App.__has_resumed_once of each application
    consumed_total, \* the cycles each application has consumed so far
    now,            \* cloca.now()
    eq_events,      \* EventQueue._events
    eq_got,         \* every event EventQueue.get has returned, in order
    eq_count,       \* the number of events put so far
    USER_REQUESTS,  \* Simulation.USER.REQUESTS
    DC_HOSTS,       \* Simulation.DATACENTER.HOSTS
    evq,            \* the events that evque holds
    tracker,        \* Tracker._requests
    calls,          \* how often each callback of each item has been invoked
    run_state,      \* where Simulation.run is: status, duration, start_time
    fcfs,           \* OsFcfs._apps and App._remained of the applications it may hold
    gpu_host,       \* _free_gpu and _vm_gpu of a host with cores and RAM to spare
    placement_gpus, \* PlacementMaxProfile.gpus: the free blocks of every GPU
    control_plane,  \* Controller.CONTROL_PLANE: the class of the control plane
    last            \* the last call: its arguments, results and raised error

vmmVars == <<free_cpu, vm_cpu, free_ram, free_gpu, vm_gpu, guests, state>>
osVars == <<running_apps, stopped_apps>>
appVars == <<remained, has_resumed_once, consumed_total>>
eqVars == <<eq_events, eq_got, eq_count>>
simVars == <<USER_REQUESTS, DC_HOSTS, evq, tracker, calls, run_state>>
extVars == <<fcfs, gpu_host, placement_gpus, control_plane>>
drvVars == <<eqVars, simVars, extVars>>
cpVars == <<node_cpu, node_ram, node_gpu, deployment_replicas,
            container_deployment, container_node, degraded_deployments,
            pending_deployments, scaled_deployments, replicas, containers,
            deployed>>

vars == <<free_cpu, vm_cpu, free_ram, free_gpu, vm_gpu, guests, state,
          running_apps, stopped_apps, vm_pm, node_cpu, node_ram, node_gpu,
          deployment_replicas, container_deployment, container_node,
          degraded_deployments, pending_deployments, scaled_deployments,
          replicas, containers, deployed, remained, has_resumed_once,
          consumed_total, now, eq_events, eq_got, eq_count, USER_REQUESTS,
          DC_HOSTS, evq, tracker, calls, run_state, fcfs, gpu_host,
          placement_gpus, control_plane, last>>

-----------------------------------------------------------------------------
(* VmmSpaceShared *)

\* the allocator state and the guests' power state and schedulers, as a record
World == [free_cpu |-> free_cpu, vm_cpu |-> vm_cpu, free_ram |-> free_ram,
          free_gpu |-> free_gpu, vm_gpu |-> vm_gpu, guests |-> guests,
          state |-> state, running_apps |-> running_apps,
          stopped_apps |-> stopped_apps]

\* what one host's allocator holds, with the VMs' power state
HostView(w, h) == [free_cpu |-> w.free_cpu[h], vm_cpu |-> w.vm_cpu[h],
                   free_ram |-> w.free_ram[h], free_gpu |-> w.free_gpu[h],
                   vm_gpu |-> w.vm_gpu[h], guests |-> w.guests[h],
                   state |-> w.state]

\* the free pools of a host view
Pools(v) == [free_cpu |-> v.free_cpu, free_ram |-> v.free_ram,
             free_gpu |-> v.free_gpu]

\* _PROFILE_BLOCK: the valid starting blocks of each profile, in the order
\* in which the set is iterated
PROFILE_BLOCK(gpu) ==
    CASE gpu = <<1, 1>> -> <<0, 1, 2, 3, 4, 5, 6>>
      [] gpu = <<1, 2>> -> <<0, 2, 4, 6>>
      [] gpu = <<2, 2>> -> <<0, 2, 4>>
      [] gpu = <<3, 4>> -> <<0, 4>>
      [] gpu = <<4, 4>> -> <<0>>
      [] gpu = <<7, 8>> -> <<0>>
      [] OTHER -> <<>>

\* range(p, p + num_memory_blocks)
Placement_first(p, gpu) == p..p

Placement(p, gpu) == p..(p + gpu[2] - 1)

\* _get_free_gpu: the first physical GPU, and on it the first placement,
\* whose blocks are all free; <<>> when there is none
get_free_gpu(fg, gpu) ==
    LET offs == PROFILE_BLOCK(gpu)
        fits == {c \in (1..Len(fg)) \X (1..Len(offs)) :
                    Placement(offs[c[2]], gpu) \subseteq fg[c[1]]}
    IN  IF fits = {} THEN <<>>
        ELSE LET c == CHOOSE x \in fits : \A y \in fits :
                          x[1] < y[1] \/ (x[1] = y[1] /\ x[2] <= y[2])
             IN  <<c[1], Placement(offs[c[2]], gpu)>>

\* has_capacity
has_capacity(w, h, vm) ==
    /\ Cardinality(w.free_cpu[h]) >= VM_CPU[vm]
    /\ w.free_ram[h] >= VM_RAM[vm]
    /\ (~Truthy(VM_GPU[vm]) \/ get_free_gpu(w.free_gpu[h], VM_GPU[vm]) # <<>>)

\* {self._free_cpu.pop() for core in range(vm.CPU)}: set.pop() returns an
\* arbitrary element, so any vm.CPU free cores can be the ones taken
\* each outcome is the pair of the cores taken and the cores left free
pop_cores_peek(free, n) == {<<S, free>> : S \in {T \in SUBSET free : Cardinality(T) = n}}

pop_cores(free, n) == {<<S, free \ S>> : S \in {T \in SUBSET free : Cardinality(T) = n}}

\* self._free_gpu[free_gpu].difference_update(free_block)
difference_update_none(blocks, placement) == blocks

difference_update(blocks, placement) == blocks \ placement

\* Vm.turn_on
turn_on(w, vm) == [w EXCEPT !.state[vm] = STATE_ON]

\* Vm.turn_off, with Os.restart
turn_off(w, vm) == [w EXCEPT !.state[vm] = STATE_OFF,
                             !.running_apps[vm] = <<>>,
                             !.stopped_apps[vm] = <<>>]

\* the GPU part of one allocation
allocate_gpu(w, h, vm) ==
    IF Truthy(VM_GPU[vm])
    THEN LET f == get_free_gpu(w.free_gpu[h], VM_GPU[vm])
         IN  [w EXCEPT !.vm_gpu[h] = Put(@, vm, f),
                       !.free_gpu[h][f[1]] = difference_update(@, f[2])]
    ELSE w

\* the body of the loop of allocate for a VM that has capacity, when
\* popped = <<cores taken, cores left>>
reserve(w, h, vm, popped) ==
    turn_on(
      [allocate_gpu(
         [w EXCEPT !.free_cpu[h] = popped[2],
                   !.vm_cpu[h] = Put(@, vm, popped[1]),
                   !.free_ram[h] = @ - VM_RAM[vm]], h, vm)
       EXCEPT !.guests[h] = Append(@, vm)], vm)

\* a loop body that reserves cores and RAM before it looks at the GPU
allocate_vm_partial(w, h, vm) ==
    IF has_capacity(w, h, vm)
    THEN {[ok |-> TRUE, w |-> reserve(w, h, vm, popped)] :
          popped \in pop_cores(w.free_cpu[h], VM_CPU[vm])}
    ELSE IF /\ Cardinality(w.free_cpu[h]) >= VM_CPU[vm]
            /\ w.free_ram[h] >= VM_RAM[vm]
         THEN {[ok |-> FALSE,
                w |-> [w EXCEPT !.free_cpu[h] = popped[2],
                                !.vm_cpu[h] = Put(@, vm, popped[1]),
                                !.free_ram[h] = @ - VM_RAM[vm]]] :
               popped \in pop_cores(w.free_cpu[h], VM_CPU[vm])}
         ELSE {[ok |-> FALSE, w |-> w]}

\* one pass of the loop of allocate: every outcome for one VM
allocate_vm(w, h, vm) ==
    IF has_capacity(w, h, vm)
    THEN {[ok |-> TRUE, w |-> reserve(w, h, vm, popped)] :
          popped \in pop_cores(w.free_cpu[h], VM_CPU[vm])}
    ELSE {[ok |-> FALSE, w |-> w]}

\* allocate: the runs of the loop over vms; steps holds the host view before
\* each VM and after the last one
RECURSIVE allocate_runs(_, _, _)
allocate_runs(r, h, vms) ==
    IF vms = <<>> THEN {r}
    ELSE UNION {allocate_runs([w |-> o.w,
                               results |-> Append(r.results, o.ok),
                               steps |-> Append(r.steps, HostView(o.w, h)),
                               raised |-> ""], h, Tail(vms)) :
                o \in allocate_vm(r.w, h, Head(vms))}

\* self._free_gpu[gpu].update(block)
update_none(blocks, block) == blocks

update(blocks, block) == blocks \cup block

\* the GPU part of one deallocation
deallocate_gpu(w, h, vm) ==
    IF Truthy(VM_GPU[vm])
    THEN LET g == w.vm_gpu[h][vm]
         IN  [w EXCEPT !.free_gpu[h][g[1]] = update(@, g[2]),
                       !.vm_gpu[h] = Del(@, vm)]
    ELSE w

\* one pass of the loop of deallocate; self._vm_cpu[vm] raises KeyError for
\* a guest without reserved cores
deallocate_vm(w, h, vm) ==
    IF InSeq(vm, w.guests[h])
    THEN IF vm \notin DOMAIN w.vm_cpu[h]
         THEN [ok |-> FALSE, raised |-> "KeyError", w |-> w]
         ELSE [ok |-> TRUE, raised |-> "",
               w |-> turn_off(
                       [deallocate_gpu(
                          [w EXCEPT !.free_cpu[h] = @ \cup w.vm_cpu[h][vm],
                                    !.vm_cpu[h] = Del(@, vm),
                                    !.free_ram[h] = @ + VM_RAM[vm]], h, vm)
                        EXCEPT !.guests[h] = RemoveFirst(@, vm)], vm)]
    ELSE [ok |-> FALSE, raised |-> "", w |-> w]

\* deallocate: the run of the loop over vms, cut short by a raised error
RECURSIVE deallocate_run(_, _, _)
deallocate_run(r, h, vms) ==
    IF vms = <<>> THEN r
    ELSE LET o == deallocate_vm(r.w, h, Head(vms))
         IN  IF o.raised # ""
             THEN [r EXCEPT !.raised = o.raised]
             ELSE deallocate_run([w |-> o.w,
                                  results |-> Append(r.results, o.ok),
                                  steps |-> Append(r.steps, HostView(o.w, h)),
                                  raised |-> ""], h, Tail(vms))

\* the run record a call starts from
StartRun(h) == [w |-> World, results |-> <<>>, steps |-> <<HostView(World, h)>>,
                raised |-> ""]

\* the variables take the values of world w
SetWorld(w) ==
    /\ free_cpu' = w.free_cpu
    /\ vm_cpu' = w.vm_cpu
    /\ free_ram' = w.free_ram
    /\ free_gpu' = w.free_gpu
    /\ vm_gpu' = w.vm_gpu
    /\ guests' = w.guests
    /\ state' = w.state
    /\ running_apps' = w.running_apps
    /\ stopped_apps' = w.stopped_apps

\* a call of host.VMM.allocate(vms)
VmmAllocate(h, vms) ==
    \E r \in allocate_runs(StartRun(h), h, vms) :
        /\ SetWorld(r.w)
        /\ last' = [op |-> "vmm.allocate", host |-> h, vms |-> vms,
                    results |-> r.results, raised |-> r.raised,
                    steps |-> r.steps, rt |-> <<>>]
        /\ UNCHANGED <<drvVars, vm_pm, cpVars, appVars, now>>

\* the free pools before the call, when the last call was a successful
\* allocate([vm]) on host h; <<>> otherwise
BeforeAllocate(h, vms) ==
    IF /\ last.op = "vmm.allocate"
       /\ last.host = h
       /\ last.vms = vms
       /\ last.results = <<TRUE>>
    THEN <<Pools(last.steps[1])>>
    ELSE <<>>

\* a call of host.VMM.deallocate(vms)
VmmDeallocate(h, vms) ==
    LET r == deallocate_run(StartRun(h), h, vms)
    IN  /\ SetWorld(r.w)
        /\ last' = [op |-> "vmm.deallocate", host |-> h, vms |-> vms,
                    results |-> r.results, raised |-> r.raised,
                    steps |-> r.steps, rt |-> BeforeAllocate(h, vms)]
        /\ UNCHANGED <<drvVars, vm_pm, cpVars, appVars, now>>

-----------------------------------------------------------------------------
(* App *)

\* App.is_stopped for remaining cycles rem and expiration exp at tick t
is_stopped(rem, exp, t) ==
    \/ (exp # -1 /\ t >= exp)
    \/ \A i \in 1..Len(rem) : rem[i] = 0

\* cycles_to_spend
cycles_to_spend_all(core_cycles, thread_cycles) == core_cycles

cycles_to_spend(core_cycles, thread_cycles) == Min(core_cycles, thread_cycles)

\* consumed_cycles[core_idx] += cycles_to_spend
set_consumed(consumed, spend) == spend

add_consumed(consumed, spend) == consumed + spend

\* the loops of App.resume: core by core, the threads in round robin
RECURSIVE resume_loop(_, _, _, _, _, _, _)
resume_loop(rem, cyc, cons, core_idx, thread_idx, exp, t) ==
    IF core_idx > Len(cyc) THEN [remained |-> rem, consumed |-> cons]
    ELSE IF cyc[core_idx] > 0 /\ ~is_stopped(rem, exp, t)
         THEN LET spend == cycles_to_spend(cyc[core_idx], rem[thread_idx])
              IN  resume_loop([rem EXCEPT ![thread_idx] = @ - spend],
                              [cyc EXCEPT ![core_idx] = @ - spend],
                              [cons EXCEPT ![core_idx] = add_consumed(@, spend)],
                              core_idx, (thread_idx % Len(rem)) + 1, exp, t)
         ELSE resume_loop(rem, cyc, cons, core_idx + 1, thread_idx, exp, t)

\* App.resume(cpu) on remaining cycles rem: the new remaining cycles and the
\* cycles consumed on each core
app_resume(rem, cpu, exp, t) ==
    resume_loop(rem, cpu, [i \in 1..Len(cpu) |-> 0], 1, 1, exp, t)

\* a direct call of app.resume(cpu)
AppResume(a, cpu) ==
    LET r == app_resume(remained[a], cpu, APP_EXPIRATION[a], now)
    IN  /\ remained' = [remained EXCEPT ![a] = r.remained]
        /\ has_resumed_once' = [has_resumed_once EXCEPT ![a] = TRUE]
        /\ consumed_total' = [consumed_total EXCEPT ![a] = @ + SumSeq(r.consumed)]
        /\ last' = [op |-> "app.resume", app |-> a, cpu |-> cpu,
                    consumed |-> r.consumed,
                    pre_remained |-> remained[a],
                    pre_stopped |-> is_stopped(remained[a], APP_EXPIRATION[a], now),
                    post_stopped |-> is_stopped(r.remained, APP_EXPIRATION[a], now)]
        /\ UNCHANGED <<drvVars, vmmVars, osVars, vm_pm, cpVars, now>>

\* cloca.increase(1): the clock advances by one tick
ClockIncrease ==
    /\ now < MaxNow
    /\ now' = now + 1
    /\ last' = [op |-> "clock.increase"]
    /\ UNCHANGED <<drvVars, vmmVars, osVars, vm_pm, cpVars, appVars>>

-----------------------------------------------------------------------------
(* Os and OsTimeShared *)

\* type(app).__name__.lower()
Kind(a) == IF a <= Len(APP_LENGTH) THEN APP_KIND[a]
           ELSE IF a <= Len(APP_LENGTH) + Len(NODES) THEN "app" ELSE "container"

\* available_cycles for one application
available_cycles(remained_cycles, duration, num_apps) ==
    [i \in 1..Len(remained_cycles) |-> (remained_cycles[i] * duration) \div num_apps]

\* the first loop of OsTimeShared.resume from the k-th running application
\* on; r holds the applications' state, remained_cycles, num_apps,
\* stopped_apps, the published events and what each application consumed
RECURSIVE os_loop(_, _, _, _, _, _)
os_loop(r, vm, apps, k, duration, t) ==
    IF k > Len(apps) THEN r
    ELSE LET app == apps[k]
             avail == available_cycles(r.remained_cycles, duration, r.num_apps)
             o == app_resume(r.remained[app], avail, APP_EXPIRATION[app], t)
             r1 == [r EXCEPT
                      !.events = IF r.has_resumed_once[app] THEN @
                                 ELSE Append(@, <<Kind(app) \o ".start", t, vm, app>>),
                      !.remained[app] = o.remained,
                      !.has_resumed_once[app] = TRUE,
                      !.remained_cycles = [i \in 1..Len(@) |-> @[i] - o.consumed[i]],
                      !.stopped = IF is_stopped(o.remained, APP_EXPIRATION[app], t)
                                  THEN Append(@, app) ELSE @,
                      !.offered = Append(@, avail),
                      !.per_app = Append(@, o.consumed),
                      !.num_apps = @ - 1,
                      !.app = <<app>>]
         IN  IF r1.num_apps = 0 THEN r1
             ELSE os_loop(r1, vm, apps, k + 1, duration, t)

\* Os.terminate for the stopped applications in turn, with the stop event
\* published for each; app is the loop variable left by the first loop
RECURSIVE terminate_all(_, _, _, _, _, _)
terminate_all(run, stp, events, stopped, app, vt) ==
    IF stopped = <<>> THEN [running |-> run, stopped |-> stp, events |-> events]
    ELSE terminate_all(RemoveFirst(run, Head(stopped)), Append(stp, Head(stopped)),
                       Append(events, <<Kind(app) \o ".stop", vt[2], vt[1], Head(stopped)>>),
                       Tail(stopped), app, vt)

\* OsTimeShared.resume(cpu, duration) on the scheduler of VM vm
os_resume(vm, cpu, duration) ==
    LET r0 == [remained |-> remained, has_resumed_once |-> has_resumed_once,
               remained_cycles |-> [i \in 1..Len(cpu) |-> cpu[i] * duration],
               num_apps |-> Len(running_apps[vm]), stopped |-> <<>>,
               events |-> <<>>, offered |-> <<>>, per_app |-> <<>>, app |-> <<>>]
        r == os_loop(r0, vm, running_apps[vm], 1, duration, now)
        tm == IF r.stopped = <<>>
              THEN [running |-> running_apps[vm], stopped |-> stopped_apps[vm],
                    events |-> r.events]
              ELSE terminate_all(running_apps[vm], stopped_apps[vm], r.events,
                                 r.stopped, r.app[1], <<vm, now>>)
    IN  [remained |-> r.remained, has_resumed_once |-> r.has_resumed_once,
         running |-> tm.running, stopped |-> tm.stopped, events |-> tm.events,
         offered |-> r.offered, per_app |-> r.per_app,
         consumed |-> [i \in 1..Len(cpu) |-> cpu[i] * duration - r.remained_cycles[i]]]

\* every application on some scheduler's lists
Scheduled == UNION {{running_apps[v][i] : i \in 1..Len(running_apps[v])} \cup
                    {stopped_apps[v][i] : i \in 1..Len(stopped_apps[v])} : v \in Vms}

\* a call of vm.OS.schedule([a]) for an application not yet on a scheduler
OsSchedule(vm, a) ==
    /\ a \notin Scheduled
    /\ running_apps' = [running_apps EXCEPT ![vm] = Append(@, a)]
    /\ last' = [op |-> "os.schedule", vm |-> vm, apps |-> <<a>>, results |-> <<TRUE>>]
    /\ UNCHANGED <<drvVars, vmmVars, stopped_apps, vm_pm, cpVars, appVars, now>>

\* a call of vm.OS.resume(cpu, duration)
OsResume(vm, cpu, duration) ==
    LET r == os_resume(vm, cpu, duration)
    IN  /\ remained' = r.remained
        /\ has_resumed_once' = r.has_resumed_once
        /\ consumed_total' = [a \in Apps |->
               consumed_total[a] + SumSeq(remained[a]) - SumSeq(r.remained[a])]
        /\ running_apps' = [running_apps EXCEPT ![vm] = r.running]
        /\ stopped_apps' = [stopped_apps EXCEPT ![vm] = r.stopped]
        /\ last' = [op |-> "os.resume", vm |-> vm, cpu |-> cpu, duration |-> duration,
                    apps |-> running_apps[vm], consumed |-> r.consumed,
                    offered |-> r.offered, per_app |-> r.per_app, events |-> r.events,
                    pre_resumed |-> has_resumed_once]
        /\ UNCHANGED <<drvVars, vmmVars, vm_pm, cpVars, now>>

-----------------------------------------------------------------------------
(* VmpFirstFit *)

\* all(x) raises TypeError when x is not iterable: a bool is not
all_raises(x) == x \in BOOLEAN

\* all(x) for a tuple x
all(x) == \A i \in DOMAIN x : x[i]

\* the loop over the hosts from the k-th host on, for one VM of allocate;
\* every outcome, as run records
RECURSIVE first_fit(_, _, _)
first_fit(r, vm, k) ==
    IF k > Len(HOSTS) THEN {[r EXCEPT !.results = Append(@, FALSE)]}
    ELSE LET host == HOSTS[k]
             capacity == has_capacity(r.w, host, vm)
         IN  IF all_raises(capacity) THEN {[r EXCEPT !.raised = "TypeError"]}
             ELSE IF all(capacity)
                  THEN {[r EXCEPT !.w = o.w,
                                  !.results = Append(@, o.ok),
                                  !.vm_pm = Put(@, vm, host),
                                  !.events = Append(@, <<"vm.allocate", host, vm>>)] :
                        o \in allocate_vm(r.w, host, vm)}
                  ELSE first_fit(r, vm, k + 1)

\* VmpFirstFit.allocate: the runs of the loop over vms, cut short by a
\* raised error
RECURSIVE vmp_allocate_runs(_, _)
vmp_allocate_runs(r, vms) ==
    IF vms = <<>> \/ r.raised # "" THEN {r}
    ELSE UNION {vmp_allocate_runs(o, Tail(vms)) : o \in first_fit(r, Head(vms), 1)}

\* VmpFirstFit.deallocate: the run of the loop over vms; self[vm] raises
\* KeyError for a VM that is not mapped
RECURSIVE vmp_deallocate_run(_, _)
vmp_deallocate_run(r, vms) ==
    IF vms = <<>> THEN r
    ELSE LET vm == Head(vms)
         IN  IF vm \notin DOMAIN r.vm_pm THEN [r EXCEPT !.raised = "KeyError"]
             ELSE LET host == r.vm_pm[vm]
                      o == deallocate_vm(r.w, host, vm)
                  IN  IF o.raised # "" THEN [r EXCEPT !.raised = o.raised]
                      ELSE vmp_deallocate_run(
                             [r EXCEPT !.w = o.w,
                                       !.results = Append(@, o.ok),
                                       !.vm_pm = Del(@, vm),
                                       !.events = Append(@, <<"vm.deallocate", host, vm>>)],
                             Tail(vms))

\* the run record a placement call starts from
StartVmp == [w |-> World, vm_pm |-> vm_pm, results |-> <<>>, raised |-> "",
             events |-> <<>>]

\* a call of DATACENTER.VMP.allocate(vms); capacity tells for the first VM
\* which hosts have capacity when the call starts
VmpAllocate(vms) ==
    \E r \in vmp_allocate_runs(StartVmp, vms) :
        /\ SetWorld(r.w)
        /\ vm_pm' = r.vm_pm
        /\ last' = [op |-> "vmp.allocate", vms |-> vms, results |-> r.results,
                    raised |-> r.raised, events |-> r.events,
                    capacity |-> [k \in 1..Len(HOSTS) |->
                                    has_capacity(World, HOSTS[k], vms[1])]]
        /\ UNCHANGED <<drvVars, cpVars, appVars, now>>

\* a call of DATACENTER.VMP.deallocate(vms)
VmpDeallocate(vms) ==
    LET r == vmp_deallocate_run(StartVmp, vms)
    IN  /\ SetWorld(r.w)
        /\ vm_pm' = r.vm_pm
        /\ last' = [op |-> "vmp.deallocate", vms |-> vms, results |-> r.results,
                    raised |-> r.raised, events |-> r.events]
        /\ UNCHANGED <<drvVars, cpVars, appVars, now>>

-----------------------------------------------------------------------------
(* Controller and ControlPlaneRoundRobin *)

\* the control plane's dictionaries and lists, with the schedulers' running
\* lists, the events published so far and the exception raised, if any;
\* overflow tells that more Container objects were needed than MaxContainers
Cluster == [node_cpu |-> node_cpu, node_ram |-> node_ram, node_gpu |-> node_gpu,
            deployment_replicas |-> deployment_replicas,
            container_deployment |-> container_deployment,
            container_node |-> container_node,
            degraded |-> degraded_deployments, pending |-> pending_deployments,
            scaled |-> scaled_deployments, containers |-> containers,
            deployed |-> deployed, running_apps |-> running_apps,
            events |-> <<>>, raised |-> "", overflow |-> FALSE,
            fractional |-> control_plane = "FractionalGPUControlPlaneRoundRobin"]

\* _get_container_requested_resources(container_spec)
get_container_requested_resources(container_spec) ==
    <<container_spec.CPU[1], container_spec.RAM[1], container_spec.GPU>>

\* _get_deployment_requested_resources(deployment)
get_deployment_requested_resources(dep) ==
    LET specs == CONTAINER_SPECS[dep]
        req(i) == get_container_requested_resources(specs[i])
    IN  <<SumSeq([i \in 1..Len(specs) |-> req(i)[1]]),
          SumSeq([i \in 1..Len(specs) |-> req(i)[2]]),
          [i \in 1..Len(specs) |-> req(i)[3]]>>

\* _has_sufficient_resources(requested_cpu, requested_ram, requested_gpu, node)
has_sufficient_resources(r, requested_cpu, requested_ram, requested_gpu, node) ==
    LET has_cpu == r.node_cpu[node] >= requested_cpu
        has_ram == r.node_ram[node] >= requested_ram
        has_gpu == requested_gpu = <<>> \/ InSeq(r.node_gpu[node], requested_gpu)
    IN  has_cpu /\ has_ram /\ has_gpu

\* the blueprints of a deployment written for the fractional control plane
fractional_specs(dep) ==
    [i \in 1..Len(CONTAINER_SPECS[dep]) |->
        [CONTAINER_SPECS[dep][i] EXCEPT !.GPU = GPU_FRACTION[dep][i]]]

\* FractionalGPUControlPlaneRoundRobin._has_sufficient_resources
fractional_has_sufficient_resources(r, requested_cpu, requested_ram, requested_gpu, node) ==
    LET has_cpu == r.node_cpu[node] >= requested_cpu
        has_ram == r.node_ram[node] >= requested_ram
        has_gpu == r.node_gpu[node] >= requested_gpu
    IN  has_cpu /\ has_ram /\ has_gpu

\* the statement under `if total_requested_gpu > 1.0`: it builds an
\* AssertionError and drops it, nothing is raised
exceeds_raises(total_requested_gpu) == ""

\* FractionalGPUControlPlaneRoundRobin._get_deployment_requested_resources:
\* the totals, and the error raised
fractional_get_deployment_requested_resources(dep) ==
    LET specs == fractional_specs(dep)
        req(i) == get_container_requested_resources(specs[i])
        total_requested_gpu == SumSeq([i \in 1..Len(specs) |-> req(i)[3]])
    IN  [total |-> <<SumSeq([i \in 1..Len(specs) |-> req(i)[1]]),
                     SumSeq([i \in 1..Len(specs) |-> req(i)[2]]),
                     total_requested_gpu>>,
         raised |-> IF total_requested_gpu > FULL_GPU
                    THEN exceeds_raises(total_requested_gpu) ELSE ""]

\* _has_sufficient_resources_for_deployment(deployment, node), with the
\* methods the fractional control plane overrides
has_sufficient_resources_for_deployment(r, dep, node) ==
    IF r.fractional
    THEN LET req == fractional_get_deployment_requested_resources(dep).total
         IN  fractional_has_sufficient_resources(r, req[1], req[2], req[3], node)
    ELSE LET req == get_deployment_requested_resources(dep)
         IN  has_sufficient_resources(r, req[1], req[2], req[3], node)

\* _has_sufficient_resources_for_container(container_spec, node)
has_sufficient_resources_for_container(r, container_spec, node) ==
    LET req == get_container_requested_resources(container_spec)
    IN  IF r.fractional
        THEN fractional_has_sufficient_resources(r, req[1], req[2], req[3], node)
        ELSE has_sufficient_resources(r, req[1], req[2], <<req[3]>>, node)

\* asdict(container): the blueprint a live container was built from
asdict(r, c) ==
    IF r.fractional
    THEN fractional_specs(r.containers[c][1])[r.containers[c][2]]
    ELSE CONTAINER_SPECS[r.containers[c][1]][r.containers[c][2]]

\* the GPU entry _deploy_container leaves on the node
gpu_after_deploy(r, node) == <<>>

\* _deploy_container(container, node)
deploy_container(r, c, node) ==
    IF ~has_sufficient_resources_for_container(r, asdict(r, c), node) THEN r
    ELSE LET req == get_container_requested_resources(asdict(r, c))
         IN  [r EXCEPT !.node_cpu[node] = @ - req[1],
                       !.node_ram[node] = @ - req[2],
                       !.node_gpu[node] = IF r.fractional THEN @ - req[3]
                                          ELSE gpu_after_deploy(r, node),
                       !.running_apps[node] = Append(@, ContainerApp(c)),
                       !.deployed = @ \cup {c}]

\* s without its i-th entry
DelAt(s, i) == SubSeq(s, 1, i - 1) \o SubSeq(s, i + 1, Len(s))

\* the n smallest members of S, ascending
RECURSIVE smallest(_, _)
smallest(S, n) ==
    IF n = 0 THEN <<>>
    ELSE LET m == CHOOSE x \in S : \A y \in S : x <= y
         IN  <<m>> \o smallest(S \ {m}, n - 1)

\* the loop of _deploy_replica over replica_containers, from index i
RECURSIVE place_containers(_, _, _, _, _)
place_containers(r, dep, node, replica_containers, i) ==
    IF i > Len(replica_containers) THEN r
    ELSE LET c == replica_containers[i]
             r1 == deploy_container(r, c, node)
         IN  place_containers(
                 [r1 EXCEPT !.container_node = Put(@, c, node),
                            !.container_deployment = Put(@, c, dep)],
                 dep, node, replica_containers, i + 1)

\* _deploy_replica(deployment, node)
deploy_replica(r, dep, node) ==
    LET unused == Containers \ DOMAIN r.containers
        n == Len(CONTAINER_SPECS[dep])
    IN  IF ~has_sufficient_resources_for_deployment(r, dep, node)
        THEN [r |-> r, ok |-> FALSE]
        ELSE IF Cardinality(unused) < n
        THEN [r |-> [r EXCEPT !.overflow = TRUE], ok |-> FALSE]
        ELSE LET replica_containers == smallest(unused, n)
                 r1 == [r EXCEPT !.containers =
                           [c \in DOMAIN @ \cup {replica_containers[i] : i \in 1..n} |->
                               IF c \in DOMAIN @ THEN @[c]
                               ELSE <<dep, CHOOSE i \in 1..n : replica_containers[i] = c>>]]
                 r2 == place_containers(r1, dep, node, replica_containers, 1)
             IN  [r |-> [r2 EXCEPT !.deployment_replicas[dep] =
                                       Append(@, replica_containers)],
                  ok |-> TRUE]

\* one pass of the for loop of _deploy_deployment over the nodes, from the
\* k-th node; returned tells that the pass ended in the return statement
RECURSIVE deploy_pass(_, _, _, _, _), deploy_pass_after(_, _, _, _, _)
deploy_pass(r, dep, num_replicas, num_deployed_replicas, k) ==
    IF k > Len(NODES)
    THEN [r |-> r, count |-> num_deployed_replicas, returned |-> FALSE]
    ELSE IF state[NODES[k]] # STATE_ON
    THEN deploy_pass(r, dep, num_replicas, num_deployed_replicas, k + 1)
    ELSE IF num_replicas = num_deployed_replicas
    THEN [r |-> r, count |-> num_deployed_replicas, returned |-> TRUE]
    ELSE deploy_pass_after(deploy_replica(r, dep, NODES[k]), dep, num_replicas,
                           num_deployed_replicas, k)

\* the pass goes on after _deploy_replica gave outcome o on the k-th node
deploy_pass_after(o, dep, num_replicas, num_deployed_replicas, k) ==
    deploy_pass(o.r, dep, num_replicas,
                IF o.ok THEN num_deployed_replicas + 1 ELSE num_deployed_replicas,
                k + 1)

\* the while loop of _deploy_deployment
RECURSIVE deploy_passes(_, _, _, _), deploy_passes_after(_, _, _, _)
deploy_passes(r, dep, num_replicas, prev_num_deployed_replicas) ==
    deploy_passes_after(
        deploy_pass(r, dep, num_replicas, prev_num_deployed_replicas, 1),
        dep, num_replicas, prev_num_deployed_replicas)

\* the end of one turn of the while loop, after the pass gave outcome p
deploy_passes_after(p, dep, num_replicas, prev_num_deployed_replicas) ==
    IF p.returned \/ p.count = prev_num_deployed_replicas
    THEN [r |-> p.r, count |-> p.count]
    ELSE deploy_passes(p.r, dep, num_replicas, p.count)

\* _deploy_deployment(deployment, num_replicas); num_replicas None is 0,
\* which the code treats the same
deploy_deployment(r, dep, num_replicas_arg) ==
    LET num_replicas == IF num_replicas_arg = 0 THEN replicas[dep]
                        ELSE num_replicas_arg
        r1 == IF dep \notin DOMAIN r.deployment_replicas
                 \/ r.deployment_replicas[dep] = <<>>
              THEN [r EXCEPT !.deployment_replicas = Put(@, dep, <<>>)]
              ELSE r
    IN  deploy_passes(r1, dep, num_replicas, 0)

\* Container.__eq__, generated by @dataclass: two containers are equal when
\* their fields are, that is when they were built from equal blueprints
container_eq(r, c1, c2) == asdict(r, c1) = asdict(r, c2)

\* container in replica
in_replica(r, c, replica) ==
    \E j \in 1..Len(replica) : container_eq(r, replica[j], c)

\* replica.remove(container): drops the first entry equal to the container
remove_from_replica(r, replica, c) ==
    DelAt(replica, CHOOSE j \in 1..Len(replica) :
                       /\ container_eq(r, replica[j], c)
                       /\ \A k \in 1..(j - 1) : ~container_eq(r, replica[k], c))

\* the index of the first replica of the list that holds container c, or 0
first_replica_with(r, replica_list, c) ==
    IF \E i \in 1..Len(replica_list) : in_replica(r, c, replica_list[i])
    THEN CHOOSE i \in 1..Len(replica_list) :
             /\ in_replica(r, c, replica_list[i])
             /\ \A j \in 1..(i - 1) : ~in_replica(r, c, replica_list[j])
    ELSE 0

\* _remove_container_references(container)
remove_container_references(r, c) ==
    LET dep == r.container_deployment[c]
        r1 == [r EXCEPT !.container_deployment = Del(@, c),
                        !.container_node = Del(@, c),
                        !.deployed = @ \ {c}]
        replica_list == IF dep \in DOMAIN r1.deployment_replicas
                        THEN r1.deployment_replicas[dep] ELSE <<>>
        i == first_replica_with(r, replica_list, c)
    IN  IF i = 0 THEN r1
        ELSE LET replica == remove_from_replica(r, replica_list[i], c)
             IN  IF replica # <<>>
                 THEN [r1 EXCEPT !.deployment_replicas[dep][i] = replica]
                 ELSE IF DelAt(replica_list, i) # <<>>
                 THEN [r1 EXCEPT !.deployment_replicas[dep] = DelAt(replica_list, i)]
                 ELSE [r1 EXCEPT !.deployment_replicas = Del(@, dep),
                                 !.events = Append(@, <<"deployment.stop", dep>>)]

\* _delete_container(node, container); node None is 0
delete_container(r, node_arg, c) ==
    IF c \notin DOMAIN r.container_node THEN [r EXCEPT !.raised = "KeyError"]
    ELSE IF node_arg # 0 /\ r.container_node[c] # node_arg
    THEN [r EXCEPT !.raised = "ValueError"]
    ELSE LET node == r.container_node[c]
             req == get_container_requested_resources(asdict(r, c))
         IN  remove_container_references(
                 [r EXCEPT !.node_cpu[node] = @ + req[1],
                           !.node_ram[node] = @ + req[2],
                           !.node_gpu[node] = IF r.fractional THEN @ + req[3]
                                              ELSE req[3]], c)

\* the inner loop of delete: the containers of one replica, last first
RECURSIVE delete_containers(_, _)
delete_containers(r, replica_containers) ==
    IF replica_containers = <<>> \/ r.raised # "" THEN r
    ELSE delete_containers(
             delete_container(r, 0, replica_containers[Len(replica_containers)]),
             SubSeq(replica_containers, 1, Len(replica_containers) - 1))

\* the outer loop of delete: the replicas of the deployment, last first
RECURSIVE delete_replicas(_, _, _)
delete_replicas(r, dep, num_replicas) ==
    IF r.raised # "" THEN r
    ELSE IF dep \notin DOMAIN r.deployment_replicas
    THEN [r EXCEPT !.raised = "KeyError"]
    ELSE IF r.deployment_replicas[dep] = <<>> \/ num_replicas = 0 THEN r
    ELSE LET replica_list == r.deployment_replicas[dep]
             replica_containers == replica_list[Len(replica_list)]
             r1 == [r EXCEPT !.deployment_replicas[dep] =
                                 SubSeq(replica_list, 1, Len(replica_list) - 1)]
         IN  delete_replicas(delete_containers(r1, replica_containers), dep,
                             num_replicas - 1)

\* the end of delete: the entry of a deployment without replicas is dropped
delete_entry(r, dep) ==
    IF r.raised = "" /\ r.deployment_replicas[dep] = <<>>
    THEN [r EXCEPT !.deployment_replicas = Del(@, dep)]
    ELSE r

\* delete(deployment, num_replicas); num_replicas None is -1, and
\* `not num_replicas` holds of None and of 0
delete(r, dep, num_replicas_arg) ==
    IF dep \notin DOMAIN r.deployment_replicas THEN [r EXCEPT !.raised = "KeyError"]
    ELSE delete_entry(
             delete_replicas(r, dep, IF num_replicas_arg \in {-1, 0}
                                     THEN Len(r.deployment_replicas[dep])
                                     ELSE num_replicas_arg),
             dep)

\* evque.publish(...) unless an exception was raised before it
publish(r, event) ==
    IF r.raised # "" THEN r ELSE [r EXCEPT !.events = Append(@, event)]

\* the replicas a scaled deployment still needs
required_replicas(r, dep) == replicas[dep] - Len(r.deployment_replicas[dep])

\* the loop of _deploy_scaled_deployments: n entries are still to be handled
RECURSIVE scaled_loop(_, _)
scaled_loop(r, n) ==
    IF n = 0 \/ r.raised # "" THEN r
    ELSE LET dep == Head(r.scaled)
             r1 == [r EXCEPT !.scaled = Tail(@)]
         IN  IF dep \notin DOMAIN r1.deployment_replicas
             THEN [r1 EXCEPT !.raised = "KeyError"]
             ELSE LET required == required_replicas(r1, dep)
                      r2 == IF required < 0
                            THEN publish(delete(r1, dep, -required),
                                         <<"deployment.scale", dep, required>>)
                            ELSE IF required > 0
                            THEN [r1 EXCEPT !.degraded = Append(@, <<dep, required>>),
                                            !.events = Append(@,
                                              <<"deployment.scale", dep, required>>)]
                            ELSE [r1 EXCEPT !.events = Append(@, <<"deployment.run", dep>>)]
                  IN  scaled_loop(r2, n - 1)

\* _deploy_scaled_deployments
deploy_scaled_deployments(r) == scaled_loop(r, Len(r.scaled))

\* the rest of one turn of the loop of _deploy_degraded_deployments, after
\* _deploy_deployment gave outcome o for the entry <<dep, num_remained_replicas>>
degraded_after(o, dep, num_remained_replicas) ==
    IF num_remained_replicas - o.count # 0
    THEN [o.r EXCEPT !.degraded = Append(@, <<dep, num_remained_replicas - o.count>>),
                     !.events = Append(@,
                         <<"deployment.degrade", dep, num_remained_replicas - o.count>>)]
    ELSE [o.r EXCEPT !.events = Append(@, <<"deployment.run", dep>>)]

\* the loop of _deploy_degraded_deployments: n entries are still to be handled
RECURSIVE degraded_loop(_, _)
degraded_loop(r, n) ==
    IF n = 0 \/ r.raised # "" THEN r
    ELSE degraded_loop(
             degraded_after(
                 deploy_deployment([r EXCEPT !.degraded = Tail(@)],
                                   Head(r.degraded)[1], Head(r.degraded)[2]),
                 Head(r.degraded)[1], Head(r.degraded)[2]),
             n - 1)

\* _deploy_degraded_deployments
deploy_degraded_deployments(r) == degraded_loop(r, Len(r.degraded))

\* the rest of one turn of the loop of _deploy_pending_deployments, after
\* _deploy_deployment gave outcome o for deployment dep
pending_after(o, dep) ==
    IF o.count = 0
    THEN [o.r EXCEPT !.pending = Append(@, dep),
                     !.events = Append(@, <<"deployment.pend", dep>>)]
    ELSE IF o.count < replicas[dep]
    THEN [o.r EXCEPT !.degraded = Append(@, <<dep, replicas[dep] - o.count>>),
                     !.events = Append(@,
                         <<"deployment.degrade", dep, replicas[dep] - o.count>>)]
    ELSE [o.r EXCEPT !.events = Append(@, <<"deployment.run", dep>>)]

\* the loop of _deploy_pending_deployments: n entries are still to be handled
RECURSIVE pending_loop(_, _)
pending_loop(r, n) ==
    IF n = 0 \/ r.raised # "" THEN r
    ELSE pending_loop(
             pending_after(deploy_deployment([r EXCEPT !.pending = Tail(@)],
                                             Head(r.pending), 0),
                           Head(r.pending)),
             n - 1)

\* _deploy_pending_deployments
deploy_pending_deployments(r) == pending_loop(r, Len(r.pending))

\* manage()
manage(r) ==
    deploy_pending_deployments(deploy_degraded_deployments(deploy_scaled_deployments(r)))

\* whether the controller, with its control plane, has been constructed
ControllerMade == DOMAIN node_cpu # {}

\* the Container objects still referenced by the control plane or by a
\* scheduler
Referenced(r, stopped) ==
    {c \in DOMAIN r.containers :
        \/ c \in DOMAIN r.container_node
        \/ \E d \in DOMAIN r.deployment_replicas :
               \E i \in 1..Len(r.deployment_replicas[d]) :
                   InSeq(c, r.deployment_replicas[d][i])
        \/ \E v \in Vms : InSeq(ContainerApp(c), r.running_apps[v])
                          \/ InSeq(ContainerApp(c), stopped[v])}

\* the variables of the cluster take the values of r
SetCluster(r) ==
    /\ node_cpu' = r.node_cpu
    /\ node_ram' = r.node_ram
    /\ node_gpu' = r.node_gpu
    /\ deployment_replicas' = r.deployment_replicas
    /\ container_deployment' = r.container_deployment
    /\ container_node' = r.container_node
    /\ degraded_deployments' = r.degraded
    /\ pending_deployments' = r.pending
    /\ scaled_deployments' = r.scaled
    /\ containers' = [c \in Referenced(r, stopped_apps) |-> r.containers[c]]
    /\ deployed' = r.deployed \cap Referenced(r, stopped_apps)
    /\ running_apps' = r.running_apps

\* the accounting of no node exceeds the node's size by more than MaxSurplus
WithinSurplus(r) ==
    \A n \in DOMAIN r.node_cpu :
        /\ r.node_cpu[n] <= VM_CPU[n] + MaxSurplus
        /\ r.node_ram[n] <= VM_RAM[n] + MaxSurplus

\* what the control plane holds when a call starts: its three lists, the
\* number of replicas recorded for each deployment and the nodes' accounting
Pre == [scaled |-> scaled_deployments, degraded |-> degraded_deployments,
        pending |-> pending_deployments,
        count |-> [d \in DOMAIN deployment_replicas |-> Len(deployment_replicas[d])],
        node_cpu |-> node_cpu, node_ram |-> node_ram, node_gpu |-> node_gpu]

\* a call of the control plane, described by call, ends with the cluster r
Returned_evicting(r, call) ==
    /\ ~r.overflow
    /\ WithinSurplus(r)
    /\ SetCluster(r)
    /\ last' = [x \in DOMAIN call \cup {"events", "raised", "pre"} |->
                   IF x = "events" THEN r.events
                   ELSE IF x = "raised" THEN r.raised
                   ELSE IF x = "pre" THEN Pre ELSE call[x]]
    /\ guests' = [h \in DOMAIN guests |-> <<>>]
    /\ UNCHANGED <<drvVars, free_cpu, vm_cpu, free_ram, free_gpu, vm_gpu, state,
                   stopped_apps, vm_pm, replicas, appVars, now>>

Returned(r, call) ==
    /\ ~r.overflow
    /\ WithinSurplus(r)
    /\ SetCluster(r)
    /\ last' = [x \in DOMAIN call \cup {"events", "raised", "pre"} |->
                   IF x = "events" THEN r.events
                   ELSE IF x = "raised" THEN r.raised
                   ELSE IF x = "pre" THEN Pre ELSE call[x]]
    /\ UNCHANGED <<drvVars, vmmVars, stopped_apps, vm_pm, replicas, appVars, now>>

\* the subscriber of 'container.stop' ends with the cluster r, the
\* schedulers' stopped lists being stopped
Stopped(r, call, stopped) ==
    /\ WithinSurplus(r)
    /\ node_cpu' = r.node_cpu
    /\ node_ram' = r.node_ram
    /\ node_gpu' = r.node_gpu
    /\ deployment_replicas' = r.deployment_replicas
    /\ container_deployment' = r.container_deployment
    /\ container_node' = r.container_node
    /\ containers' = [c \in Referenced(r, stopped) |-> r.containers[c]]
    /\ deployed' = r.deployed \cap Referenced(r, stopped)
    /\ running_apps' = r.running_apps
    /\ last' = [x \in DOMAIN call \cup {"events", "raised", "pre"} |->
                   IF x = "events" THEN r.events
                   ELSE IF x = "raised" THEN r.raised
                   ELSE IF x = "pre" THEN Pre ELSE call[x]]
    /\ UNCHANGED <<drvVars, vmmVars, vm_pm, degraded_deployments, pending_deployments,
                   scaled_deployments, replicas, appVars, now>>

\* Controller(NODES, CONTROL_PLANE=ControlPlaneRoundRobin): the worker
\* applications are scheduled and the control plane is constructed
MakeController(cp) ==
    /\ ~ControllerMade
    /\ control_plane' = cp
    /\ running_apps' = [v \in Vms |->
           IF \E i \in 1..Len(NODES) : NODES[i] = v
           THEN Append(running_apps[v],
                       WorkerApp(CHOOSE i \in 1..Len(NODES) : NODES[i] = v))
           ELSE running_apps[v]]
    /\ node_cpu' = [n \in {NODES[i] : i \in 1..Len(NODES)} |-> VM_CPU[n]]
    /\ node_ram' = [n \in {NODES[i] : i \in 1..Len(NODES)} |-> VM_RAM[n]]
    /\ node_gpu' = [n \in {NODES[i] : i \in 1..Len(NODES)} |->
                       IF cp = "ControlPlaneRoundRobin" THEN VM_GPU[n]
                       ELSE IF Truthy(VM_GPU[n]) THEN FULL_GPU ELSE 0]
    /\ deployment_replicas' = EmptyDict
    /\ container_deployment' = EmptyDict
    /\ container_node' = EmptyDict
    /\ degraded_deployments' = <<>>
    /\ pending_deployments' = <<>>
    /\ scaled_deployments' = <<>>
    /\ last' = [op |-> "controller.new"]
    /\ UNCHANGED <<eqVars, simVars, fcfs, gpu_host, placement_gpus, vmmVars,
                   stopped_apps, vm_pm,
                   replicas, containers, deployed, appVars, now>>

NewController == MakeController("ControlPlaneRoundRobin")

\* Controller(NODES, CONTROL_PLANE=FractionalGPUControlPlaneRoundRobin): the
\* nodes' GPU entries are 1.0 for a node with a GPU and 0.0 for the others
NewFractionalController == MakeController("FractionalGPUControlPlaneRoundRobin")

\* whether the control plane holds deployment d in any of its collections
Known(d) ==
    \/ InSeq(d, pending_deployments)
    \/ InSeq(d, scaled_deployments)
    \/ d \in DOMAIN deployment_replicas
    \/ \E i \in 1..Len(degraded_deployments) : degraded_deployments[i][1] = d

\* CONTROL_PLANE.apply(deployment), for a deployment the control plane does
\* not hold
CpApply(d) ==
    /\ ControllerMade
    /\ ~Known(d)
    /\ pending_deployments' = Append(pending_deployments, d)
    /\ last' = [op |-> "cp.apply", deployment |-> d]
    /\ UNCHANGED <<drvVars, vmmVars, osVars, vm_pm, node_cpu, node_ram, node_gpu,
                   deployment_replicas, container_deployment, container_node,
                   degraded_deployments, scaled_deployments, replicas,
                   containers, deployed, appVars, now>>

\* CONTROL_PLANE.scale(deployment, n)
CpScale(d, n) ==
    /\ ControllerMade
    /\ Len(scaled_deployments) + Len(degraded_deployments) < MaxQueue
    /\ replicas' = [replicas EXCEPT ![d] = n]
    /\ scaled_deployments' = Append(scaled_deployments, d)
    /\ last' = [op |-> "cp.scale", deployment |-> d, replicas |-> n]
    /\ UNCHANGED <<drvVars, vmmVars, osVars, vm_pm, node_cpu, node_ram, node_gpu,
                   deployment_replicas, container_deployment, container_node,
                   degraded_deployments, pending_deployments, containers,
                   deployed, appVars, now>>

\* CONTROL_PLANE.delete(deployment, n)
CpDelete(d, n) ==
    /\ ControllerMade
    /\ Returned(delete(Cluster, d, n),
                [op |-> "cp.delete", deployment |-> d, num_replicas |-> n])

\* CONTROL_PLANE.manage()
CpManage ==
    /\ ControllerMade
    /\ Returned(manage(Cluster), [op |-> "cp.manage"])

\* container c, running on node v, is found stopped by the node's scheduler:
\* Os.terminate([c]), then 'container.stop' is published and the control
\* plane's subscriber _delete_container(v, c) runs
ContainerStop(v, c) ==
    /\ ControllerMade
    /\ InSeq(ContainerApp(c), running_apps[v])
    /\ stopped_apps' = [stopped_apps EXCEPT ![v] = Append(@, ContainerApp(c))]
    /\ Stopped(delete_container(
                   [Cluster EXCEPT !.running_apps[v] = RemoveFirst(@, ContainerApp(c))],
                   v, c),
               [op |-> "container.stop", vm |-> v, container |-> c],
               [stopped_apps EXCEPT ![v] = Append(@, ContainerApp(c))])

\* node.turn_on() on a node of the cluster
NodeTurnOn(v) ==
    /\ state[v] = STATE_OFF
    /\ state' = [state EXCEPT ![v] = STATE_ON]
    /\ last' = [op |-> "vm.turn_on", vm |-> v]
    /\ UNCHANGED <<drvVars, free_cpu, vm_cpu, free_ram, free_gpu, vm_gpu, guests, osVars,
                   vm_pm, cpVars, appVars, now>>

\* node.turn_off() on a node of the cluster, with Os.restart
NodeTurnOff(v) ==
    LET w == turn_off(World, v)
        live == Referenced([Cluster EXCEPT !.running_apps = w.running_apps],
                           w.stopped_apps)
    IN  /\ state[v] = STATE_ON
        /\ SetWorld(w)
        /\ containers' = [c \in live |-> containers[c]]
        /\ deployed' = deployed \cap live
        /\ last' = [op |-> "vm.turn_off", vm |-> v]
        /\ UNCHANGED <<drvVars, vm_pm, node_cpu, node_ram, node_gpu, deployment_replicas,
                       container_deployment, container_node, degraded_deployments,
                       pending_deployments, scaled_deployments, replicas,
                       appVars, now>>

-----------------------------------------------------------------------------
(* Controller *)

\* the Controller as an application: Controller(LENGTH=APP_LENGTH[3],
\* EXPIRATION=APP_EXPIRATION[3], NODES, CONTROL_PLANE)
CONTROLLER == 3

\* ControlPlaneRoundRobin.is_stopped(), inherited by the fractional class
cp_is_stopped_always(r) == TRUE

cp_is_stopped(r) == FALSE

\* Controller.is_stopped()
controller_is_stopped(r, rem, exp, t) ==
    is_stopped(rem, exp, t) \/ cp_is_stopped(r)

\* the loops of App.resume run on a Controller, where self.is_stopped() is
\* Controller.is_stopped()
RECURSIVE controller_resume_loop(_, _, _, _, _, _, _, _)
controller_resume_loop(r, rem, cyc, cons, core_idx, thread_idx, exp, t) ==
    IF core_idx > Len(cyc) THEN [remained |-> rem, consumed |-> cons]
    ELSE IF cyc[core_idx] > 0 /\ ~controller_is_stopped(r, rem, exp, t)
         THEN LET spend == cycles_to_spend(cyc[core_idx], rem[thread_idx])
              IN  controller_resume_loop(r, [rem EXCEPT ![thread_idx] = @ - spend],
                              [cyc EXCEPT ![core_idx] = @ - spend],
                              [cons EXCEPT ![core_idx] = add_consumed(@, spend)],
                              core_idx, (thread_idx % Len(rem)) + 1, exp, t)
         ELSE controller_resume_loop(r, rem, cyc, cons, core_idx + 1, thread_idx,
                                     exp, t)

\* super().resume(cpu) of a Controller whose control plane is in state r;
\* nothing is consumed when manage() has raised
controller_resume(r, rem, cpu, exp, t) ==
    IF r.raised # "" THEN [remained |-> rem, consumed |-> <<>>]
    ELSE controller_resume_loop(r, rem, cpu, [i \in 1..Len(cpu) |-> 0], 1, 1, exp, t)

\* Controller.resume(cpu) ends: the control plane is in state r and the
\* application part of the controller in state a
ControllerResumed(r, a, cpu) ==
    /\ ~r.overflow
    /\ WithinSurplus(r)
    /\ SetCluster(r)
    /\ remained' = [remained EXCEPT ![CONTROLLER] = a.remained]
    /\ has_resumed_once' = [has_resumed_once EXCEPT ![CONTROLLER] = @ \/ r.raised = ""]
    /\ consumed_total' = [consumed_total EXCEPT ![CONTROLLER] = @ + SumSeq(a.consumed)]
    /\ last' = [op |-> "controller.resume", cpu |-> cpu, events |-> r.events,
                raised |-> r.raised, pre |-> Pre, consumed |-> a.consumed,
                pre_remained |-> remained[CONTROLLER],
                scaled |-> r.scaled,
                post_stopped |-> controller_is_stopped(r, a.remained,
                                     APP_EXPIRATION[CONTROLLER], now)]
    /\ UNCHANGED <<drvVars, vmmVars, stopped_apps, vm_pm, replicas, now>>

\* Controller.resume(cpu): CONTROL_PLANE.manage(), then App.resume(cpu)
ControllerResume(cpu) ==
    /\ ControllerMade
    /\ LET r == manage(Cluster)
       IN  ControllerResumed(r,
               controller_resume(r, remained[CONTROLLER], cpu,
                                 APP_EXPIRATION[CONTROLLER], now), cpu)

-----------------------------------------------------------------------------
(* EventQueue *)

\* the test that ends the loop of put at event e of the queue
breaks_early(e, event) == e.TICK >= event.TICK

breaks(e, event) == e.TICK > event.TICK

\* the index at which put inserts: the loop stops at the first event whose
\* TICK is greater than the new event's
RECURSIVE insert_index(_, _, _)
insert_index(events, event, index) ==
    IF index = Len(events) THEN index
    ELSE IF breaks(events[index + 1], event)
    THEN index
    ELSE insert_index(events, event, index + 1)

\* self._events.insert(index, event)
insert(events, index, event) ==
    SubSeq(events, 1, index) \o <<event>> \o SubSeq(events, index + 1, Len(events))

\* EventQueue.put(event)
put(events, event) == insert(events, insert_index(events, event, 0), event)

\* EventQueue.get(current_tick): the events popped from the head, and the
\* events left
RECURSIVE get(_, _, _)
get(events, current_tick, got) ==
    IF events = <<>> THEN [events |-> got, left |-> events]
    ELSE IF events[1].TICK <= current_tick
    THEN get(Tail(events), current_tick, Append(got, events[1]))
    ELSE [events |-> got, left |-> events]

\* queue.put(Event(tick, TYPE, DATA)); DATA numbers the events as they are put
EqPut(tick) ==
    /\ eq_count < MaxEvents
    /\ eq_count' = eq_count + 1
    /\ eq_events' = put(eq_events, [TICK |-> tick, DATA |-> eq_count + 1])
    /\ last' = [op |-> "eq.put", tick |-> tick]
    /\ UNCHANGED <<vmmVars, osVars, vm_pm, cpVars, appVars, now, eq_got, simVars, extVars>>

\* queue.get(current_tick)
EqGet(current_tick) ==
    LET r == get(eq_events, current_tick, <<>>)
    IN  /\ eq_events' = r.left
        /\ eq_got' = eq_got \o r.events
        /\ last' = [op |-> "eq.get", current_tick |-> current_tick,
                    events |-> r.events, before |-> eq_events]
        /\ UNCHANGED <<vmmVars, osVars, vm_pm, cpVars, appVars, now, eq_count,
                       simVars, extVars>>

-----------------------------------------------------------------------------
(* evque, Tracker and Simulation *)

\* the items a user may submit: Requests, with the VM asked for, and plain
\* Actions; EXECUTE, ON_SUCCESS and ON_FAILURE tell whether the callback is set
ITEMS ==
    << [kind |-> "request", ARRIVAL |-> 0, VM |-> 1, REQUIRED |-> FALSE,
        IGNORED |-> FALSE, EXECUTE |-> TRUE, ON_SUCCESS |-> TRUE, ON_FAILURE |-> TRUE],
       [kind |-> "request", ARRIVAL |-> 0, VM |-> 4, REQUIRED |-> TRUE,
        IGNORED |-> FALSE, EXECUTE |-> FALSE, ON_SUCCESS |-> FALSE, ON_FAILURE |-> FALSE],
       [kind |-> "request", ARRIVAL |-> 0, VM |-> 3, REQUIRED |-> FALSE,
        IGNORED |-> TRUE, EXECUTE |-> TRUE, ON_SUCCESS |-> FALSE, ON_FAILURE |-> TRUE],
       [kind |-> "action", ARRIVAL |-> 0, VM |-> 0, REQUIRED |-> FALSE,
        IGNORED |-> FALSE, EXECUTE |-> TRUE, ON_SUCCESS |-> FALSE, ON_FAILURE |-> FALSE],
       [kind |-> "action", ARRIVAL |-> 1, VM |-> 0, REQUIRED |-> FALSE,
        IGNORED |-> FALSE, EXECUTE |-> TRUE, ON_SUCCESS |-> FALSE, ON_FAILURE |-> FALSE],
       [kind |-> "request", ARRIVAL |-> 1, VM |-> 2, REQUIRED |-> FALSE,
        IGNORED |-> FALSE, EXECUTE |-> FALSE, ON_SUCCESS |-> FALSE, ON_FAILURE |-> FALSE] >>

\* Simulation.CLOCK_RESOLUTION
CLOCK_RESOLUTION == 1

\* the lists of requests a user may hold: no item twice
Scenarios ==
    {s \in SeqsUpTo(1..Len(ITEMS), MaxRequests) :
        \A i, j \in 1..Len(s) : i # j => s[i] # s[j]}

\* evque.publish(topic, tick, data): the event waits behind the events of
\* the same tick that were published before it
evque_publish(q, topic, tick, data) ==
    put(q, [TICK |-> tick, topic |-> topic, data |-> data])

\* Tracker.record(label, requests)
record(t, label, requests) == [t EXCEPT ![label] = @ \o requests]

\* Tracker.has_pending()
has_pending(t) == Len(t.arrived) > Len(t.accepted) + Len(t.rejected)

\* [r for r in requests if isinstance(r, model.Request)]
only_requests(batch) == SelectSeq(batch, LAMBDA i : ITEMS[i].kind = "request")

\* [r for r in requests if not r.IGNORED]
not_ignored(requests) == SelectSeq(requests, LAMBDA i : ~ITEMS[i].IGNORED)

\* one more invocation of a callback of an item
invoke(c, item, callback) == [c EXCEPT ![item][callback] = @ + 1]

\* the state a simulation step works on: evque's events, the tracker, the
\* callbacks invoked, the data center, the error raised, the events fired
\* so far in the step with the tracker after each, and the lists of VMs
\* submitted to the placement engine
StartSim == [evq |-> evq, tracker |-> tracker, calls |-> calls, w |-> World,
             vm_pm |-> vm_pm, raised |-> "", fired |-> <<>>, submitted |-> <<>>]

\* the events of a placement call, published at tick t
RECURSIVE publish_all(_, _, _)
publish_all(q, events, t) ==
    IF events = <<>> THEN q
    ELSE publish_all(evque_publish(q, events[1][1], t, <<events[1][2], events[1][3]>>),
                     Tail(events), t)

\* DATACENTER.VMP.allocate(vms): every outcome; without hosts each VM gets
\* False from the else branch of the loop over the hosts
datacenter_allocate(D, vms) ==
    IF DC_HOSTS = <<>>
    THEN {[w |-> D.w, vm_pm |-> D.vm_pm, results |-> [i \in 1..Len(vms) |-> FALSE],
           raised |-> "", events |-> <<>>]}
    ELSE vmp_allocate_runs([w |-> D.w, vm_pm |-> D.vm_pm, results |-> <<>>,
                            raised |-> "", events |-> <<>>], vms)

\* the test that makes a rejected request fatal
required_ignored(request) == FALSE

required(request) == ITEMS[request].REQUIRED

\* the loop of _handle_request_arrive over zip(requests, allocations), from
\* the k-th pair on
RECURSIVE check_allocations(_, _, _, _)
check_allocations(c, requests, allocations, k) ==
    IF k > Len(requests) \/ k > Len(allocations) \/ c.raised # "" THEN c
    ELSE LET request == requests[k]
         IN  IF allocations[k]
             THEN check_allocations(
                      [c EXCEPT !.accepted = Append(@, request),
                                !.calls = IF ITEMS[request].ON_SUCCESS
                                          THEN invoke(@, request, "ON_SUCCESS") ELSE @],
                      requests, allocations, k + 1)
             ELSE IF required(request)
             THEN [c EXCEPT !.rejected = Append(@, request),
                            !.raised = "AssertionError"]
             ELSE check_allocations(
                      [c EXCEPT !.rejected = Append(@, request),
                                !.calls = IF ITEMS[request].ON_FAILURE
                                          THEN invoke(@, request, "ON_FAILURE") ELSE @],
                      requests, allocations, k + 1)

\* the tick for which _handle_request_arrive publishes its results when
\* the clock reads t
results_tick_next(t) == t + CLOCK_RESOLUTION

results_tick(t) == t

\* the rest of _handle_request_arrive once the loop has ended with c
arrive_publish(D, requests, c, t) ==
    IF c.raised # "" THEN [D EXCEPT !.calls = c.calls, !.raised = c.raised]
    ELSE [D EXCEPT !.calls = c.calls,
                   !.evq = evque_publish(
                             evque_publish(
                               evque_publish(@, "request.accept", results_tick(t),
                                             c.accepted),
                               "request.reject", results_tick(t), c.rejected),
                             "action.execute", results_tick(t), requests)]

\* the rest of _handle_request_arrive once the placement engine has given
\* outcome o
arrive_after(D, requests, o, t) ==
    IF o.raised # ""
    THEN [D EXCEPT !.w = o.w, !.vm_pm = o.vm_pm, !.raised = o.raised,
                   !.evq = publish_all(@, o.events, t)]
    ELSE arrive_publish(
             [D EXCEPT !.w = o.w, !.vm_pm = o.vm_pm,
                       !.evq = publish_all(@, o.events, t)],
             requests,
             check_allocations([accepted |-> <<>>, rejected |-> <<>>,
                                calls |-> D.calls, raised |-> ""],
                               requests, o.results, 1),
             t)

\* the requests that _handle_request_arrive records as arrived
arrived_all(requests) == requests

arrived_requests(requests) == not_ignored(requests)

\* _handle_request_arrive(requests) at tick t: every outcome
handle_request_arrive(D, batch, t) ==
    LET requests == only_requests(batch)
        vms == [i \in 1..Len(requests) |-> ITEMS[requests[i]].VM]
        D1 == [D EXCEPT !.tracker = record(@, "arrived", arrived_requests(requests)),
                        !.submitted = Append(@, vms)]
    IN  {arrive_after(D1, requests, o, t) : o \in datacenter_allocate(D1, vms)}

\* _handle_request_accept(requests)
handle_request_accept(D, requests) ==
    [D EXCEPT !.tracker = record(@, "accepted", not_ignored(only_requests(requests)))]

\* _handle_request_reject(requests)
handle_request_reject(D, requests) ==
    [D EXCEPT !.tracker = record(@, "rejected", not_ignored(only_requests(requests)))]

\* _handle_action_execute(actions)
RECURSIVE handle_action_execute(_, _)
handle_action_execute(D, actions) ==
    IF actions = <<>> THEN D
    ELSE handle_action_execute(
             IF ITEMS[actions[1]].EXECUTE
             THEN [D EXCEPT !.calls = invoke(@, actions[1], "EXECUTE")] ELSE D,
             Tail(actions))

\* the subscribers of the topic of event e run; the subscribers of the
\* other topics only print
dispatch(D, e, t) ==
    CASE e.topic = "request.arrive" -> handle_request_arrive(D, e.data, t)
      [] e.topic = "request.accept" -> {handle_request_accept(D, e.data)}
      [] e.topic = "request.reject" -> {handle_request_reject(D, e.data)}
      [] e.topic = "action.execute" -> {handle_action_execute(D, e.data)}
      [] OTHER -> {D}

\* the event is noted as fired, with the tracker its subscribers left
fired_with(D, e) ==
    [D EXCEPT !.fired = Append(@, [topic |-> e.topic, data |-> e.data,
                                   TICK |-> e.TICK, tracker |-> D.tracker])]

\* evque.run_until(t): the events with a tick of t or less fire in turn,
\* those published meanwhile included, until none is left or an error is
\* raised; every outcome
RECURSIVE run_until(_, _)
run_until(D, t) ==
    IF D.raised # "" \/ D.evq = <<>> THEN {D}
    ELSE IF D.evq[1].TICK > t THEN {D}
    ELSE UNION {run_until(fired_with(o, D.evq[1]), t) :
                   o \in dispatch([D EXCEPT !.evq = Tail(@)], D.evq[1], t)}

\* the guests of the hosts of the data center, host by host, from the k-th
\* host on
RECURSIVE all_guests(_, _)
all_guests(w, k) ==
    IF k > Len(DC_HOSTS) THEN <<>>
    ELSE [i \in 1..Len(w.guests[DC_HOSTS[k]]) |->
             [host |-> DC_HOSTS[k], vm |-> w.guests[DC_HOSTS[k]][i]]]
         \o all_guests(w, k + 1)

\* [self.HOST.CPU[core] for core in self._vm_cpu[vm]], the cores taken in
\* ascending order
RECURSIVE cores_cpu(_, _)
cores_cpu(h, cores) ==
    IF cores = {} THEN <<>>
    ELSE LET core == CHOOSE c \in cores : \A d \in cores : c <= d
         IN  <<PM_CPU[h][core + 1]>> \o cores_cpu(h, cores \ {core})

\* vm.OS.resume(vm_cpu, duration) for guest g
guest_resume(w, g) ==
    os_resume(g.vm, cores_cpu(g.host, w.vm_cpu[g.host][g.vm]), CLOCK_RESOLUTION)

\* the guest whose scheduler runs application a, if any
guest_of(gs, a) == {i \in 1..Len(gs) : InSeq(a, running_apps[gs[i].vm])}

\* the events of the guests' schedulers, guest by guest
RECURSIVE resume_events(_, _, _)
resume_events(w, gs, k) ==
    IF k > Len(gs) THEN <<>>
    ELSE guest_resume(w, gs[k]).events \o resume_events(w, gs, k + 1)

\* DATACENTER.VMP.resume(CLOCK_RESOLUTION): every host's VMM resumes every
\* guest's scheduler; a scheduler only touches its own applications
vmp_resume(w) ==
    LET gs == all_guests(w, 1)
        of(v) == CHOOSE i \in 1..Len(gs) : gs[i].vm = v
        is_guest(v) == \E i \in 1..Len(gs) : gs[i].vm = v
    IN  [remained |-> [a \in DOMAIN remained |->
                          IF guest_of(gs, a) = {} THEN remained[a]
                          ELSE guest_resume(w, gs[CHOOSE i \in guest_of(gs, a) : TRUE]).remained[a]],
         has_resumed_once |-> [a \in DOMAIN has_resumed_once |->
                          IF guest_of(gs, a) = {} THEN has_resumed_once[a]
                          ELSE guest_resume(w, gs[CHOOSE i \in guest_of(gs, a) : TRUE]).has_resumed_once[a]],
         running_apps |-> [v \in DOMAIN w.running_apps |->
                          IF is_guest(v) THEN guest_resume(w, gs[of(v)]).running
                          ELSE w.running_apps[v]],
         stopped_apps |-> [v \in DOMAIN w.stopped_apps |->
                          IF is_guest(v) THEN guest_resume(w, gs[of(v)]).stopped
                          ELSE w.stopped_apps[v]],
         events |-> resume_events(w, gs, 1)]

\* DATACENTER.VMP.stopped(): the idle guests of every host
vmp_stopped(w) ==
    LET gs == all_guests(w, 1)
        idle == SelectSeq(gs, LAMBDA g : w.running_apps[g.vm] = <<>>)
    IN  [i \in 1..Len(idle) |-> idle[i].vm]

\* the deallocation of the stopped VMs, if there are any
deallocate_stopped(w, mapped, stopped_vms) ==
    IF stopped_vms = <<>>
    THEN [w |-> w, vm_pm |-> mapped, results |-> <<>>, raised |-> "", events |-> <<>>]
    ELSE vmp_deallocate_run([w |-> w, vm_pm |-> mapped, results |-> <<>>,
                             raised |-> "", events |-> <<>>], stopped_vms)

\* Simulation.completed() for the events q, the tracker t and the mapping
completed(q, t, mapped) == q = <<>> /\ ~has_pending(t) /\ DOMAIN mapped = {}

\* has_duration_elapsed() of run; a duration of None or 0 never elapses
has_duration_elapsed ==
    IF run_state.duration # 0
    THEN now >= run_state.start_time + run_state.duration
    ELSE FALSE

\* should_exit() of run
should_exit ==
    IF run_state.duration # 0 THEN has_duration_elapsed
    ELSE completed(evq, tracker, vm_pm)

\* groupby(USER.REQUESTS, key=ARRIVAL): the batches of consecutive items of
\* one arrival time
RECURSIVE groupby(_, _)
groupby(items, groups) ==
    IF items = <<>> THEN groups
    ELSE IF groups # <<>>
            /\ ITEMS[groups[Len(groups)][1]].ARRIVAL = ITEMS[items[1]].ARRIVAL
    THEN groupby(Tail(items),
                 [groups EXCEPT ![Len(groups)] = Append(@, items[1])])
    ELSE groupby(Tail(items), Append(groups, <<items[1]>>))

\* the arrival of each batch is published
RECURSIVE publish_arrivals(_, _)
publish_arrivals(q, groups) ==
    IF groups = <<>> THEN q
    ELSE publish_arrivals(
             evque_publish(q, "request.arrive", ITEMS[groups[1][1]].ARRIVAL, groups[1]),
             Tail(groups))

\* Simulation(USER=User(REQUESTS=items), DATACENTER=DataCenter(HOSTS=hosts))
NewSimulation(items, hosts) ==
    /\ run_state.status = "none"
    /\ USER_REQUESTS' = items
    /\ DC_HOSTS' = hosts
    /\ tracker' = [arrived |-> <<>>, accepted |-> <<>>, rejected |-> <<>>]
    /\ calls' = [i \in 1..Len(ITEMS) |->
                    [EXECUTE |-> 0, ON_SUCCESS |-> 0, ON_FAILURE |-> 0]]
    /\ now' = 0
    /\ evq' = publish_arrivals(<<>>, groupby(items, <<>>))
    /\ run_state' = [status |-> "made", duration |-> 0, start_time |-> 0]
    /\ last' = [op |-> "sim.new"]
    /\ UNCHANGED <<vmmVars, osVars, vm_pm, cpVars, appVars, eqVars, extVars>>

\* run(duration) is called; duration None is 0, which the code treats the same
RunStart(duration) ==
    /\ run_state.status \in {"made", "paused", "stopped"}
    /\ run_state' = [status |-> "running", duration |-> duration, start_time |-> now]
    /\ last' = [op |-> "sim.run", duration |-> duration]
    /\ UNCHANGED <<vmmVars, osVars, vm_pm, cpVars, appVars, now, eqVars, extVars,
                   USER_REQUESTS, DC_HOSTS, evq, tracker, calls>>

\* the loop of run ends
RunEnd ==
    /\ run_state.status = "running"
    /\ should_exit
    /\ run_state' = [run_state EXCEPT !.status = IF has_duration_elapsed
                                                 THEN "paused" ELSE "stopped"]
    /\ last' = [op |-> "sim.end", completed |-> completed(evq, tracker, vm_pm),
                elapsed |-> has_duration_elapsed, duration |-> run_state.duration]
    /\ UNCHANGED <<vmmVars, osVars, vm_pm, cpVars, appVars, now, eqVars, extVars,
                   USER_REQUESTS, DC_HOSTS, evq, tracker, calls>>

\* what a step says of itself: the tick, whether the system was settled and
\* the duration had elapsed when it started, the events fired, the lists
\* submitted for allocation, the pending requests and the due events left
\* when the drain ended, the VMs deallocated and the error raised
StepRecord(D, stopped_vms, events, raised) ==
    [op |-> "sim.step", t |-> now,
     completed |-> completed(evq, tracker, vm_pm),
     elapsed |-> (run_state.duration # 0
                  /\ now >= run_state.start_time + run_state.duration),
     duration |-> run_state.duration,
     fired |-> D.fired, submitted |-> D.submitted,
     pending |-> has_pending(D.tracker),
     due |-> D.evq # <<>> /\ D.evq[1].TICK <= now,
     stopped |-> stopped_vms, events |-> events, raised |-> raised]

\* a step that an error ends: run is left and the clock stays
StepAborted(D, w, mapped, q, stopped_vms, events, raised) ==
    /\ SetWorld(w)
    /\ vm_pm' = mapped
    /\ evq' = q
    /\ tracker' = D.tracker
    /\ calls' = D.calls
    /\ run_state' = [run_state EXCEPT !.status = "aborted"]
    /\ last' = StepRecord(D, stopped_vms, events, raised)
    /\ UNCHANGED <<cpVars, appVars, now, eqVars, extVars, USER_REQUESTS, DC_HOSTS>>

\* the end of a step, after the resume phase gave rs and the deallocation
\* of the stopped VMs gave de
StepDone(D, rs, stopped_vms, de) ==
    IF de.raised # ""
    THEN /\ StepAborted(D, [de.w EXCEPT !.running_apps = rs.running_apps,
                                        !.stopped_apps = rs.stopped_apps],
                        de.vm_pm, publish_all(D.evq, de.events, now),
                        stopped_vms, rs.events \o de.events, de.raised)
    ELSE /\ SetWorld(de.w)
         /\ vm_pm' = de.vm_pm
         /\ evq' = publish_all(D.evq, de.events, now)
         /\ tracker' = D.tracker
         /\ calls' = D.calls
         /\ remained' = rs.remained
         /\ has_resumed_once' = rs.has_resumed_once
         /\ consumed_total' = [a \in DOMAIN consumed_total |->
                consumed_total[a] + SumSeq(remained[a]) - SumSeq(rs.remained[a])]
         /\ now' = now + CLOCK_RESOLUTION
         /\ last' = StepRecord(D, stopped_vms, rs.events \o de.events, "")
         /\ UNCHANGED <<cpVars, eqVars, extVars, USER_REQUESTS, DC_HOSTS, run_state>>

\* the phases of a step after the drain left D: resume, then the
\* deallocation of the stopped VMs
StepPhases(D, rs) ==
    StepDone(D, rs,
             vmp_stopped([D.w EXCEPT !.running_apps = rs.running_apps,
                                     !.stopped_apps = rs.stopped_apps]),
             deallocate_stopped([D.w EXCEPT !.running_apps = rs.running_apps,
                                            !.stopped_apps = rs.stopped_apps],
                                D.vm_pm,
                                vmp_stopped([D.w EXCEPT !.running_apps = rs.running_apps,
                                                        !.stopped_apps = rs.stopped_apps])))

\* _simulate_step(), one turn of the loop of run
SimStep ==
    /\ run_state.status = "running"
    /\ ~should_exit
    /\ now < MaxClock
    /\ \E D \in run_until(StartSim, now) :
           IF D.raised # ""
           THEN StepAborted(D, D.w, D.vm_pm, D.evq, <<>>, <<>>, D.raised)
           ELSE StepPhases(D, vmp_resume(D.w))

-----------------------------------------------------------------------------
(* OsFcfs, with the App it schedules *)

\* App.LENGTH of the applications an OsFcfs scheduler may be given
FCFS_LENGTH == << <<4, 4, 4>>, <<1, 2>> >>

\* the core speeds a call of OsFcfs.process is given
FcfsSpeeds == {<<2, 2>>, <<1>>}

\* any(x) of a list of numbers
any(x) == \E i \in 1..Len(x) : x[i] # 0

\* App.finished()
finished(threads) == ~any(threads)

\* the loop of App.process: the thread and the core advance only when
\* exhausted
RECURSIVE app_process_loop(_, _, _, _)
app_process_loop(threads, cycles, c, t) ==
    IF any(cycles) /\ ~finished(threads)
    THEN LET spent_cycles == Min(cycles[c], threads[t])
             th == [threads EXCEPT ![t] = @ - spent_cycles]
             cy == [cycles EXCEPT ![c] = @ - spent_cycles]
         IN  app_process_loop(th, cy,
                              IF cy[c] = 0 THEN (c % Len(cy)) + 1 ELSE c,
                              IF th[t] = 0 THEN (t % Len(th)) + 1 ELSE t)
    ELSE [remained |-> threads, cycles |-> cycles]

\* App.process(cycles): the threads' and the cores' remaining cycles
app_process(threads, cycles) == app_process_loop(threads, cycles, 1, 1)

\* the loop of OsFcfs.process over the applications, in admission order
RECURSIVE fcfs_loop(_, _, _, _)
fcfs_loop(rem, apps, cycles, k) ==
    IF k > Len(apps) THEN [remained |-> rem, cycles |-> cycles]
    ELSE IF any(cycles) /\ ~finished(rem[apps[k]])
    THEN LET p == app_process(rem[apps[k]], cycles)
         IN  fcfs_loop([rem EXCEPT ![apps[k]] = p.remained], apps, p.cycles, k + 1)
    ELSE IF ~any(cycles) THEN [remained |-> rem, cycles |-> cycles]
    ELSE fcfs_loop(rem, apps, cycles, k + 1)

\* OsFcfs.process(cpu, duration): the applications' remaining cycles and
\* the cores' remaining cycles the call returns
fcfs_process(f, cpu, duration) ==
    fcfs_loop(f.remained, f.apps, [i \in 1..Len(cpu) |-> cpu[i] * duration], 1)

\* OsFcfs.schedule([a])
FcfsSchedule(a) ==
    /\ ~InSeq(a, fcfs.apps)
    /\ fcfs' = [fcfs EXCEPT !.apps = Append(@, a)]
    /\ last' = [op |-> "fcfs.schedule", app |-> a]
    /\ UNCHANGED <<vmmVars, osVars, vm_pm, cpVars, appVars, now, eqVars, simVars,
                   gpu_host, placement_gpus, control_plane>>

\* OsFcfs.process(cpu, duration)
FcfsProcess(cpu, duration) ==
    /\ fcfs.apps # <<>>
    /\ LET p == fcfs_process(fcfs, cpu, duration)
       IN  /\ fcfs' = [fcfs EXCEPT !.remained = p.remained]
           /\ last' = [op |-> "fcfs.process", cpu |-> cpu, duration |-> duration,
                       pre |-> fcfs, cycles |-> p.cycles]
    /\ UNCHANGED <<vmmVars, osVars, vm_pm, cpVars, appVars, now, eqVars, simVars,
                   gpu_host, placement_gpus, control_plane>>

-----------------------------------------------------------------------------
(* VmmSpaceShared on a host whose GPU is the only scarce resource *)

\* the memory blocks of the host's one physical GPU, Pm.GPU = ((7, 8),)
GPU_BLOCKS == 8

\* Vm.GPU of the guests the host is asked to take
GPU_PROFILES == {<<1, 1>>, <<1, 2>>, <<2, 2>>}

\* allocate([vm]) for a VM with GPU profile p, with cores and RAM free: the
\* VM is admitted when _get_free_gpu finds a placement, which it then holds
GpuAllocate(p) ==
    /\ Cardinality(gpu_host.vm_gpu) < MaxGuests
    /\ LET f == get_free_gpu(gpu_host.free_gpu, p)
       IN  /\ gpu_host' =
                  IF f = <<>> THEN gpu_host
                  ELSE [free_gpu |-> [gpu_host.free_gpu EXCEPT
                                         ![f[1]] = difference_update(@, f[2])],
                        vm_gpu |-> gpu_host.vm_gpu \cup {<<p, f>>}]
           /\ last' = [op |-> "gpu.allocate", gpu |-> p,
                       pre |-> gpu_host.free_gpu[1], result |-> f # <<>>]
    /\ UNCHANGED <<vmmVars, osVars, vm_pm, cpVars, appVars, now, eqVars, simVars,
                   fcfs, placement_gpus, control_plane>>

\* deallocate([vm]) for the guest that holds g
GpuDeallocate(g) ==
    /\ g \in gpu_host.vm_gpu
    /\ gpu_host' = [free_gpu |-> [gpu_host.free_gpu EXCEPT
                                     ![g[2][1]] = update(@, g[2][2])],
                    vm_gpu |-> gpu_host.vm_gpu \ {g}]
    /\ last' = [op |-> "gpu.deallocate", gpu |-> g[1]]
    /\ UNCHANGED <<vmmVars, osVars, vm_pm, cpVars, appVars, now, eqVars, simVars,
                   fcfs, placement_gpus, control_plane>>

-----------------------------------------------------------------------------
(* PlacementMaxProfile *)

\* PlacementMaxProfile.placements: the valid starting blocks of each
\* profile, in the order in which the set is iterated
placements(profile) ==
    CASE profile = <<1, 1>> -> <<0, 1, 2, 3, 4, 5, 6>>
      [] profile = <<2, 2>> -> <<0, 2, 4>>
      [] profile = <<3, 4>> -> <<0, 4>>
      [] profile = <<4, 4>> -> <<0>>
      [] profile = <<7, 8>> -> <<0>>

\* PlacementMaxProfile.profiles
profiles == << <<1, 1>>, <<2, 2>>, <<3, 4>>, <<4, 4>>, <<7, 8>> >>

\* range(loc, loc + memory_slices) of a profile placed at block loc
slices(profile, loc) == loc..(loc + profile[2] - 1)

\* _profile_loc(profile, gpu): the blocks at which the profile can reside
profile_loc(profile, gpu) ==
    LET fits(loc) == slices(profile, loc) \subseteq gpu
    IN  SelectSeq(placements(profile), fits)

\* _count_profile_loc(profile, gpu)
count_profile_loc(profile, gpu) == Len(profile_loc(profile, gpu))

\* _count_profiles_loc(profiles, gpu)
count_profiles_loc(profs, gpu) ==
    SumSeq([k \in 1..Len(profs) |-> count_profile_loc(profs[k], gpu)])

\* count_all_loc(profiles, gpus): the pair (i, count) of every GPU
count_all_loc(profs, gs) ==
    [i \in 1..Len(gs) |-> <<i - 1, count_profiles_loc(profs, gs[i])>>]

\* what solve takes out of the free set of a GPU before it counts what
\* remains: gpu.remove(loc)
tentative(request, gpu, loc) == gpu \ {loc}

\* the entry (i, loc, count) that solve appends to counts for block loc of
\* the i-th GPU
count_entry(request, gs, i, loc) ==
    LET reserved == [gs EXCEPT ![i] = tentative(request, @, loc)]
        all_loc == count_all_loc(profiles, reserved)
    IN  <<i - 1, loc, SumSeq([k \in 1..Len(all_loc) |-> all_loc[k][2]])>>

\* the entries that solve appends for the GPUs from the i-th on
RECURSIVE solve_counts(_, _, _)
solve_counts(request, gs, i) ==
    IF i > Len(gs) THEN <<>>
    ELSE LET locs == profile_loc(request, gs[i])
         IN  [k \in 1..Len(locs) |-> count_entry(request, gs, i, locs[k])]
             \o solve_counts(request, gs, i + 1)

\* max(counts, key=lambda c: c[2]): the first entry with the largest count
max_count(counts) ==
    LET best == CHOOSE k \in 1..Len(counts) :
                    /\ \A j \in 1..Len(counts) : counts[j][3] <= counts[k][3]
                    /\ \A j \in 1..(k - 1) : counts[j][3] < counts[k][3]
    IN  counts[best]

\* what solve leaves in the free sets: every block it removed it adds again
RECURSIVE solve_restored(_, _, _)
solve_restored(request, gs, i) ==
    IF i > Len(gs) THEN gs
    ELSE LET locs == profile_loc(request, gs[i])
             removed == {locs[k] : k \in 1..Len(locs)}
         IN  solve_restored(request,
                            [gs EXCEPT ![i] = (@ \ removed) \cup removed], i + 1)

\* solve(request, gpus): () or the pair (gpu, loc), the GPUs counted from 0,
\* with the free sets as the call leaves them
solve(request, gs) ==
    LET counts == solve_counts(request, gs, 1)
    IN  [result |-> IF counts = <<>> THEN <<>>
                    ELSE <<max_count(counts)[1], max_count(counts)[2]>>,
         gpus |-> solve_restored(request, gs, 1)]

\* the free sets a GPU of 8 blocks may be left with by guests that hold
\* aligned pairs of blocks
FreeBlockSets ==
    {UNION {2 * k .. 2 * k + 1 : k \in ks} : ks \in SUBSET Range(GPU_BLOCKS \div 2)}

\* PlacementMaxProfile.__post_init__: the free sets of the GPUs of the
\* data center's servers are collected
NewPlacement(gs) ==
    /\ placement_gpus = <<>>
    /\ placement_gpus' = gs
    /\ last' = [op |-> "placement.new"]
    /\ UNCHANGED <<vmmVars, osVars, vm_pm, cpVars, appVars, now, eqVars, simVars,
                   fcfs, gpu_host, control_plane>>

\* solve(request, self.gpus)
Solve(request) ==
    /\ placement_gpus # <<>>
    /\ LET sol == solve(request, placement_gpus)
       IN  /\ placement_gpus' = sol.gpus
           /\ last' = [op |-> "placement.solve", request |-> request,
                       gpus |-> placement_gpus, result |-> sol.result]
    /\ UNCHANGED <<vmmVars, osVars, vm_pm, cpVars, appVars, now, eqVars, simVars,
                   fcfs, gpu_host, control_plane>>

-----------------------------------------------------------------------------
Init ==
    /\ free_cpu = [h \in Pms |-> Range(Len(PM_CPU[h]))]
    /\ vm_cpu = [h \in Pms |-> EmptyDict]
    /\ free_ram = [h \in Pms |-> PM_RAM[h]]
    /\ free_gpu = [h \in Pms |-> [g \in 1..Len(PM_GPU[h]) |-> Range(PM_GPU[h][g][2])]]
    /\ vm_gpu = [h \in Pms |-> EmptyDict]
    /\ guests = [h \in Pms |-> <<>>]
    /\ state = [v \in Vms |-> STATE_OFF]
    /\ running_apps = [v \in Vms |-> <<>>]
    /\ stopped_apps = [v \in Vms |-> <<>>]
    /\ vm_pm = EmptyDict
    /\ node_cpu = EmptyDict
    /\ node_ram = EmptyDict
    /\ node_gpu = EmptyDict
    /\ deployment_replicas = EmptyDict
    /\ container_deployment = EmptyDict
    /\ container_node = EmptyDict
    /\ degraded_deployments = <<>>
    /\ pending_deployments = <<>>
    /\ scaled_deployments = <<>>
    /\ replicas = [d \in Deployments |-> REPLICAS[d]]
    /\ containers = EmptyDict
    /\ deployed = {}
    /\ remained = [a \in Apps |-> APP_LENGTH[a]]
    /\ has_resumed_once = [a \in Apps |-> FALSE]
    /\ consumed_total = [a \in Apps |-> 0]
    /\ now = 0
    /\ eq_events = <<>>
    /\ eq_got = <<>>
    /\ eq_count = 0
    /\ USER_REQUESTS = <<>>
    /\ DC_HOSTS = <<>>
    /\ evq = <<>>
    /\ tracker = [arrived |-> <<>>, accepted |-> <<>>, rejected |-> <<>>]
    /\ calls = <<>>
    /\ run_state = [status |-> "none", duration |-> 0, start_time |-> 0]
    /\ fcfs = [apps |-> <<>>, remained |-> FCFS_LENGTH]
    /\ gpu_host = [free_gpu |-> <<Range(GPU_BLOCKS)>>, vm_gpu |-> {}]
    /\ placement_gpus = <<>>
    /\ control_plane = ""
    /\ last = [op |-> "init"]

NextVmm ==
    \/ \E h \in Pms, vms \in SeqsUpTo(REQUESTED, MaxBatch) : VmmAllocate(h, vms)
    \/ \E h \in Pms, vms \in SeqsUpTo(REQUESTED, MaxBatch) : VmmDeallocate(h, vms)

SpecVmm == Init /\ [][NextVmm]_vars

NextVmp ==
    \/ \E h \in Pms, vm \in REQUESTED : VmmAllocate(h, <<vm>>)
    \/ \E h \in Pms, vm \in REQUESTED : VmmDeallocate(h, <<vm>>)
    \/ \E vms \in SeqsUpTo(REQUESTED, MaxBatch) : VmpAllocate(vms)
    \/ \E vms \in SeqsUpTo(REQUESTED, MaxBatch) : VmpDeallocate(vms)

SpecVmp == Init /\ [][NextVmp]_vars

\* the cycles a direct call of App.resume offers on its cores
Offers == SeqsUpTo(-1..MaxCycles, 2)

NextApp ==
    \/ \E a \in GUEST_APPS, cpu \in Offers : AppResume(a, cpu)
    \/ ClockIncrease

SpecApp == Init /\ [][NextApp]_vars

\* the core speeds a call of Os.resume is given: those of some cores of a
\* host, in the order of the host's cores
Speeds == {<<1>>, <<2>>, <<2, 1>>}

NextOs ==
    \/ \E vm \in REQUESTED, a \in GUEST_APPS : OsSchedule(vm, a)
    \/ \E vm \in REQUESTED, cpu \in Speeds, d \in 1..MaxDuration : OsResume(vm, cpu, d)
    \/ ClockIncrease

SpecOs == Init /\ [][NextOs]_vars

\* the cluster: the controller is built, nodes are switched on and off,
\* deployments are applied and deleted, and the control plane manages
NodeSet == {NODES[i] : i \in 1..Len(NODES)}

\* the deployments that the deleting and the scaling scenarios submit
Submitted == {1, 2}

NextCP ==
    \/ NewController
    \/ \E v \in NodeSet : NodeTurnOn(v)
    \/ \E v \in NodeSet : NodeTurnOff(v)
    \/ \E d \in Submitted : CpApply(d)
    \/ \E d \in Submitted, n \in -1..MaxReplicas : CpDelete(d, n)
    \/ \E v \in NodeSet, c \in Containers : ContainerStop(v, c)
    \/ CpManage

SpecCP == Init /\ [][NextCP]_vars

\* the cluster driven by apply and scale commands only, on nodes that stay on
NextScale ==
    \/ NewController
    \/ \E v \in NodeSet : NodeTurnOn(v)
    \/ \E d \in Submitted : CpApply(d)
    \/ \E d \in Submitted, n \in 0..MaxReplicas : CpScale(d, n)
    \/ CpManage

SpecScale == Init /\ [][NextScale]_vars

\* an event queue under any interleaving of put and get calls
NextQueue ==
    \/ \E tick \in 0..MaxTick : EqPut(tick)
    \/ \E current_tick \in 0..MaxTick : EqGet(current_tick)

SpecQueue == Init /\ [][NextQueue]_vars

\* the data centers a scenario may have: without hosts, or with the hosts
DataCenters == {<<>>, HOSTS}

\* a simulation: it is built, run is called, the loop steps and ends
NextSim ==
    \/ \E items \in Scenarios, hosts \in DataCenters : NewSimulation(items, hosts)
    \/ \E duration \in 0..MaxRun : RunStart(duration)
    \/ SimStep
    \/ RunEnd

SpecSim == Init /\ [][NextSim]_vars

\* the cluster driven by apply commands only, on nodes that go on and off
NextPend ==
    \/ NewController
    \/ \E v \in NodeSet : NodeTurnOn(v)
    \/ \E v \in NodeSet : NodeTurnOff(v)
    \/ \E d \in Deployments : CpApply(d)
    \/ CpManage

SpecPend == Init /\ [][NextPend]_vars

\* an OsFcfs scheduler: applications are admitted and the scheduler is
\* given cycles
NextFcfs ==
    \/ \E a \in 1..Len(FCFS_LENGTH) : FcfsSchedule(a)
    \/ \E cpu \in FcfsSpeeds, d \in 1..MaxDuration : FcfsProcess(cpu, d)

SpecFcfs == Init /\ [][NextFcfs]_vars

\* guests with GPU profiles come to and leave a host with one 8-block GPU
NextGpu ==
    \/ \E p \in GPU_PROFILES : GpuAllocate(p)
    \/ \E g \in gpu_host.vm_gpu : GpuDeallocate(g)

SpecGpu == Init /\ [][NextGpu]_vars

\* the cluster under the fractional control plane, driven by apply commands
NextFrac ==
    \/ NewFractionalController
    \/ \E v \in NodeSet : NodeTurnOn(v)
    \/ \E v \in NodeSet : NodeTurnOff(v)
    \/ \E d \in Deployments : CpApply(d)
    \/ CpManage

SpecFrac == Init /\ [][NextFrac]_vars

\* the controller is resumed, as its node's scheduler does, while
\* deployments are applied and scaled and the clock advances
NextCtl ==
    \/ NewController
    \/ \E v \in NodeSet : NodeTurnOn(v)
    \/ \E d \in Submitted : CpApply(d)
    \/ \E n \in 1..MaxReplicas : CpScale(1, n)
    \/ \E cpu \in Speeds : ControllerResume(cpu)
    \/ ClockIncrease

SpecCtl == Init /\ [][NextCtl]_vars

\* a placement policy is built over one GPU or more and asked for
\* placements
NextPlacement ==
    \/ \E n \in 1..MaxGpus : \E gs \in [1..n -> FreeBlockSets] : NewPlacement(gs)
    \/ \E k \in 1..Len(profiles) : Solve(profiles[k])

SpecPlacement == Init /\ [][NextPlacement]_vars

\* a cluster next to a data center: hosts take guests in and let them go
\* while the control plane of the cluster is at work
NextFrame ==
    \/ VmmAllocate(2, <<1>>)
    \/ VmmDeallocate(2, <<1>>)
    \/ NewController
    \/ NodeTurnOn(NODES[1])
    \/ CpApply(1)
    \/ CpScale(1, 1)
    \/ \E n \in 0..MaxReplicas : CpDelete(1, n)
    \/ \E c \in Containers : ContainerStop(NODES[1], c)
    \/ CpManage

SpecFrame == Init /\ [][NextFrame]_vars

\* a simulation whose run loop goes on: `while not should_exit():
\* self._simulate_step()` takes a step for as long as a step can be taken,
\* and run returns once should_exit() holds
SpecRun == Init /\ [][NextSim]_vars /\ WF_vars(SimStep) /\ WF_vars(RunEnd)

-----------------------------------------------------------------------------
(* Claims about VmmSpaceShared *)

\* the blocks of physical GPU g taken between two host views
TakenBlocks(pre, post, g) == pre.free_gpu[g] \ post.free_gpu[g]

\* VM vm was allocated between the host views pre and post
Reserved(pre, post, vm) ==
    /\ post.free_cpu \subseteq pre.free_cpu
    /\ Cardinality(pre.free_cpu \ post.free_cpu) = VM_CPU[vm]
    /\ vm \in DOMAIN post.vm_cpu
    /\ post.vm_cpu[vm] = pre.free_cpu \ post.free_cpu
    /\ post.free_ram = pre.free_ram - VM_RAM[vm]
    /\ IF Truthy(VM_GPU[vm])
       THEN /\ vm \in DOMAIN post.vm_gpu
            /\ \E g \in 1..Len(pre.free_gpu) :
                 /\ post.vm_gpu[vm][1] = g
                 /\ post.free_gpu[g] \subseteq pre.free_gpu[g]
                 /\ TakenBlocks(pre, post, g) = post.vm_gpu[vm][2]
                 /\ \E p \in 0..7 : TakenBlocks(pre, post, g) = Placement(p, VM_GPU[vm])
                 /\ \A k \in 1..Len(pre.free_gpu) : k # g => post.free_gpu[k] = pre.free_gpu[k]
       ELSE post.free_gpu = pre.free_gpu
    /\ InSeq(vm, post.guests)
    /\ post.state[vm] = STATE_ON

\* C1: allocate handles each VM of its list atomically: a True result means
\* that exactly vm.CPU free cores, vm.RAM of RAM and, for a VM with a GPU,
\* one run of blocks were reserved and the VM is an ON guest; a False result
\* means that nothing of the host or of any VM's power state changed.
C1_AllocateAtomic ==
    last.op = "vmm.allocate" =>
        \A i \in 1..Len(last.results) :
            IF last.results[i]
            THEN Reserved(last.steps[i], last.steps[i + 1], last.vms[i])
            ELSE last.steps[i + 1] = last.steps[i]

\* an allocate call accepted a VM with a GPU and turned another VM down
C1_Witness ==
    /\ last.op = "vmm.allocate"
    /\ \E i, j \in 1..Len(last.results) :
         /\ last.results[i]
         /\ Truthy(VM_GPU[last.vms[i]])
         /\ ~last.results[j]

\* C2: a successful allocate([vm]) followed by deallocate([vm]) leaves the
\* host's free cores, free RAM and free GPU blocks as they were before the
\* allocation.
C2_RoundTrip ==
    (last.op = "vmm.deallocate" /\ last.rt # <<>>) =>
        /\ last.results = <<TRUE>>
        /\ Pools(HostView(World, last.host)) = last.rt[1]

\* a VM with a GPU was allocated and deallocated again on a host that had
\* another guest
C2_Witness ==
    /\ last.op = "vmm.deallocate"
    /\ last.rt # <<>>
    /\ Truthy(VM_GPU[last.vms[1]])
    /\ guests[last.host] # <<>>

\* C3: on every host the core sets reserved for different VMs are pairwise
\* disjoint and lie within the host's core indices.
C3_CoresDisjoint ==
    \A h \in Pms :
        /\ \A v \in DOMAIN vm_cpu[h] : vm_cpu[h][v] \subseteq Range(Len(PM_CPU[h]))
        /\ \A v1, v2 \in DOMAIN vm_cpu[h] :
             v1 # v2 => vm_cpu[h][v1] \cap vm_cpu[h][v2] = {}

\* two guests hold cores on one host after a deallocate call
C3_Witness ==
    /\ last.op = "vmm.deallocate"
    /\ \E h \in Pms : \E v1, v2 \in DOMAIN vm_cpu[h] :
         v1 # v2 /\ vm_cpu[h][v1] # {} /\ vm_cpu[h][v2] # {}

\* C4: on every physical GPU the block sets reserved for different VMs are
\* pairwise disjoint, lie within the GPU's blocks and do not meet the GPU's
\* free blocks.
C4_BlocksDisjoint ==
    \A h \in Pms :
        /\ \A v \in DOMAIN vm_gpu[h] :
             /\ vm_gpu[h][v][2] \subseteq Range(PM_GPU[h][vm_gpu[h][v][1]][2])
             /\ vm_gpu[h][v][2] \cap free_gpu[h][vm_gpu[h][v][1]] = {}
        /\ \A v1, v2 \in DOMAIN vm_gpu[h] :
             (v1 # v2 /\ vm_gpu[h][v1][1] = vm_gpu[h][v2][1])
                 => vm_gpu[h][v1][2] \cap vm_gpu[h][v2][2] = {}

\* two guests hold blocks of the same physical GPU
C4_Witness ==
    \E h \in Pms : \E v1, v2 \in DOMAIN vm_gpu[h] :
        v1 # v2 /\ vm_gpu[h][v1][1] = vm_gpu[h][v2][1]

-----------------------------------------------------------------------------
(* Claims about App and OsTimeShared *)

\* the sum over the applications of what each consumed on core i
CoreSum(per_app, i) == SumSeq([k \in 1..Len(per_app) |-> per_app[k][i]])

\* C5: OsTimeShared.resume(cpu, duration) returns for every core a value
\* between 0 and cpu[core] * duration, which is the sum of what the
\* applications consumed on that core in the call.
C5_WithinBudget ==
    last.op = "os.resume" =>
        \A i \in 1..Len(last.cpu) :
            /\ 0 <= last.consumed[i]
            /\ last.consumed[i] <= last.cpu[i] * last.duration
            /\ last.consumed[i] = CoreSum(last.per_app, i)

\* C6: the cycles an application has consumed over all resume calls never
\* exceed the sum of LENGTH, every remaining value stays between 0 and its
\* LENGTH entry, and a resume of a stopped application consumes nothing and
\* leaves the remaining values as they were.
C6_Conservation ==
    /\ \A a \in Apps :
         /\ consumed_total[a] <= SumSeq(APP_LENGTH[a])
         /\ \A i \in 1..Len(remained[a]) :
              0 <= remained[a][i] /\ remained[a][i] <= APP_LENGTH[a][i]
    /\ (last.op = "app.resume" /\ last.pre_stopped) =>
         /\ \A i \in 1..Len(last.consumed) : last.consumed[i] = 0
         /\ remained[last.app] = last.pre_remained

\* an application that has consumed its whole LENGTH is resumed again with
\* cycles on offer
C6_Witness ==
    /\ last.op = "app.resume"
    /\ last.pre_stopped
    /\ consumed_total[last.app] = SumSeq(APP_LENGTH[last.app])
    /\ \E i \in 1..Len(last.cpu) : last.cpu[i] > 0

\* the cycles put on offer by a call: a core with a negative value offers none
OfferedSum(cpu) == SumSeq([i \in 1..Len(cpu) |-> IF cpu[i] > 0 THEN cpu[i] ELSE 0])

\* C7 as stated, for offers without negative values: the consumed cycles sum
\* to the decrease of the remaining cycles, and they sum to the offered
\* cycles, or else the application is stopped when the call returns and they
\* sum to the cycles remaining before the call.
C7_Original ==
    (last.op = "app.resume" /\ \A i \in 1..Len(last.cpu) : last.cpu[i] >= 0) =>
        /\ SumSeq(last.consumed) = SumSeq(last.pre_remained) - SumSeq(remained[last.app])
        /\ \/ SumSeq(last.consumed) = SumSeq(last.cpu)
           \/ /\ last.post_stopped
              /\ SumSeq(last.consumed) = SumSeq(last.pre_remained)

\* C7 amended: the consumed cycles sum to the decrease of the remaining
\* cycles; they are zero for an application that is stopped (exhausted or
\* expired) when the call starts; otherwise they sum to the cycles on offer
\* unless the application becomes stopped during the call, when they sum to
\* the cycles remaining before the call.
C7_ExactConservation ==
    last.op = "app.resume" =>
        /\ SumSeq(last.consumed) = SumSeq(last.pre_remained) - SumSeq(remained[last.app])
        /\ IF last.pre_stopped
           THEN SumSeq(last.consumed) = 0
           ELSE IF last.post_stopped
                THEN SumSeq(last.consumed) = SumSeq(last.pre_remained)
                ELSE SumSeq(last.consumed) = OfferedSum(last.cpu)

\* an expired application with cycles remaining is offered cycles, and
\* before it an application spent one core's cycles on two threads
C7_Witness ==
    /\ last.op = "app.resume"
    /\ last.pre_stopped
    /\ SumSeq(last.pre_remained) > 0
    /\ OfferedSum(last.cpu) > 0
    /\ \E a \in Apps : a # last.app /\ consumed_total[a] > 0 /\ remained[a][1] = 0

-----------------------------------------------------------------------------
(* Claims about VmpFirstFit *)

\* C8: VmpFirstFit.allocate places a VM on the first host, in the order of
\* HOSTS, that has capacity for it: when some host has capacity for the first
\* VM of the call, the call raises nothing, reports True for it and maps it
\* to the first such host, also when an earlier host lacks RAM; when no host
\* has capacity it reports False and maps nothing.
C8_FirstFit ==
    last.op = "vmp.allocate" =>
        LET vm == last.vms[1]
            fits == {k \in 1..Len(HOSTS) : last.capacity[k]}
        IN  IF fits = {}
            THEN last.raised = "" /\ last.results[1] = FALSE
            ELSE /\ last.raised = ""
                 /\ last.results[1] = TRUE
                 /\ vm \in DOMAIN vm_pm
                 /\ \E k \in fits : vm_pm[vm] = HOSTS[k] /\ \A j \in fits : k <= j

-----------------------------------------------------------------------------
(* Claims about ControlPlaneRoundRobin *)

\* the requests, of kind k (1 CPU, 2 RAM), of the containers recorded on node n
RECURSIVE RequestedOn(_, _, _)
RequestedOn(n, k, S) ==
    IF S = {} THEN 0
    ELSE LET c == CHOOSE x \in S : TRUE
             spec == CONTAINER_SPECS[containers[c][1]][containers[c][2]]
         IN  (IF container_node[c] = n
              THEN get_container_requested_resources(spec)[k] ELSE 0)
             + RequestedOn(n, k, S \ {c})

\* C9: a replica is placed atomically: every replica recorded by the control
\* plane has one container per blueprint, all of them deployed on one and the
\* same node, and the CPU and RAM requests of the recorded containers are
\* deducted from that node's accounting; no recorded replica has a container
\* that was not actually deployed.
C9_ReplicaAtomic ==
    ControllerMade =>
        /\ \A d \in DOMAIN deployment_replicas :
            \A i \in 1..Len(deployment_replicas[d]) :
                LET replica == deployment_replicas[d][i]
                IN  /\ Len(replica) = Len(CONTAINER_SPECS[d])
                    /\ \A j \in 1..Len(replica) :
                          /\ replica[j] \in deployed
                          /\ container_node[replica[j]] = container_node[replica[1]]
        /\ \A n \in NodeSet :
              /\ node_cpu[n] = VM_CPU[n] - RequestedOn(n, 1, DOMAIN container_node)
              /\ node_ram[n] = VM_RAM[n] - RequestedOn(n, 2, DOMAIN container_node)

\* C10: for any sequence of apply and scale commands, once manage() has run
\* and left no deployment pending or degraded, the number of replicas
\* recorded for each live deployment equals deployment.replicas.
C10_ReplicaCount ==
    (/\ last.op = "cp.manage"
     /\ last.raised = ""
     /\ pending_deployments = <<>>
     /\ degraded_deployments = <<>>
     /\ scaled_deployments = <<>>)
    => \A d \in DOMAIN deployment_replicas :
           Len(deployment_replicas[d]) = replicas[d]

-----------------------------------------------------------------------------
(* Claims about scaling down, pending deployments and the last replica *)

\* the number of replicas recorded for deployment d
NumReplicas(d) ==
    IF d \in DOMAIN deployment_replicas THEN Len(deployment_replicas[d]) ELSE 0

\* the events of the last call that match the predicate holding of S
EventsIn(S) == {i \in 1..Len(last.events) : last.events[i] \in S}

\* C11: when manage() resolves a scale request whose desired count is below
\* the current replica count, it deletes exactly current - desired replicas
\* in that call, leaves exactly desired replicas recorded and emits one
\* 'deployment.scale' event whose delta is desired - current
C11_ScaleDown ==
    (/\ last.op = "cp.manage"
     /\ Len(last.pre.scaled) = 1
     /\ last.pre.degraded = <<>>
     /\ last.pre.pending = <<>>) =>
        LET d == last.pre.scaled[1]
        IN  (/\ d \in DOMAIN last.pre.count
             /\ 0 < replicas[d]
             /\ replicas[d] < last.pre.count[d]) =>
                /\ last.raised = ""
                /\ NumReplicas(d) = replicas[d]
                /\ Cardinality(EventsIn({<<"deployment.scale", d, delta>> :
                                             delta \in -MaxContainers..MaxContainers})) = 1
                /\ Cardinality(EventsIn({<<"deployment.scale", d,
                                             replicas[d] - last.pre.count[d]>>})) = 1

\* no blueprint of deployment d declares a GPU demand
NoGpuDemand(d) ==
    \A i \in 1..Len(CONTAINER_SPECS[d]) :
        CONTAINER_SPECS[d][i].GPU \in {<<>>, <<-1>>}

\* the number of replicas of deployment d that node n could hold when the
\* last call started: none when the node is off or its GPU entry is not one
\* the deployment asks for, else what the CPU and RAM left for it allow
Holds(d, n) ==
    LET req == get_deployment_requested_resources(d)
    IN  IF state[n] # STATE_ON THEN 0
        ELSE IF ~(req[3] = <<>> \/ InSeq(last.pre.node_gpu[n], req[3])) THEN 0
        ELSE Min(last.pre.node_cpu[n] \div req[1], last.pre.node_ram[n] \div req[2])

\* the number of replicas of deployment d recorded with a container on node n
ReplicasOn(d, n) ==
    IF d \notin DOMAIN deployment_replicas THEN 0
    ELSE Cardinality({i \in 1..Len(deployment_replicas[d]) :
            \E j \in 1..Len(deployment_replicas[d][i]) :
                LET c == deployment_replicas[d][i][j]
                IN  c \in DOMAIN container_node /\ container_node[c] = n})

\* C12: a pending deployment whose replica count equals the number of
\* replicas the powered-on nodes can hold is fully placed by one manage()
\* call, every node holding what it can, and the call ends with
\* 'deployment.run' and neither 'deployment.degrade' nor 'deployment.pend'
C12_PendingFits ==
    (/\ last.op = "cp.manage"
     /\ Len(last.pre.pending) = 1
     /\ last.pre.scaled = <<>>
     /\ last.pre.degraded = <<>>) =>
        LET d == last.pre.pending[1]
        IN  (/\ d \notin DOMAIN last.pre.count
             /\ NoGpuDemand(d)
             /\ replicas[d] = SumSeq([k \in 1..Len(NODES) |-> Holds(d, NODES[k])])) =>
                /\ last.raised = ""
                /\ NumReplicas(d) = replicas[d]
                /\ \A k \in 1..Len(NODES) :
                       ReplicasOn(d, NODES[k]) = Holds(d, NODES[k])
                /\ EventsIn({<<"deployment.run", d>>}) # {}
                /\ EventsIn({<<"deployment.pend", d>>}
                            \cup {<<"deployment.degrade", d, k>> :
                                      k \in 0..MaxContainers}) = {}
                /\ pending_deployments = <<>>
                /\ degraded_deployments = <<>>

\* C13: whenever a call removes the last replica of a deployment, through
\* 'container.stop' or through delete(), the deployment's entry is deleted
\* and exactly one 'deployment.stop' event is emitted for that deployment
C13_LastReplicaStops ==
    (last.op \in {"cp.delete", "container.stop"} /\ last.raised = "") =>
        \A d \in DOMAIN last.pre.count :
            (last.pre.count[d] > 0 /\ NumReplicas(d) = 0) =>
                /\ d \notin DOMAIN deployment_replicas
                /\ Cardinality(EventsIn({<<"deployment.stop", d>>})) = 1

-----------------------------------------------------------------------------
(* Claims about EventQueue *)

\* event a is delivered before event b when both are queued: a has the
\* smaller tick or, the ticks being equal, was put first
Before(a, b) == a.TICK < b.TICK \/ (a.TICK = b.TICK /\ a.DATA < b.DATA)

\* C19: events are delivered in non-decreasing order of their tick, and
\* events of the same tick in the order in which they were put, whatever
\* the interleaving of the put calls: a call of get returns every due event
\* of the queue, the returned events are in that order, and two events of
\* the same tick are never delivered against the order of publication
C19_DeliveryOrder ==
    /\ \A i, j \in 1..Len(eq_got) :
           (i < j /\ eq_got[i].TICK = eq_got[j].TICK) => eq_got[i].DATA < eq_got[j].DATA
    /\ last.op = "eq.get" =>
           /\ \A i, j \in 1..Len(last.events) :
                  i < j => Before(last.events[i], last.events[j])
           /\ \A i \in 1..Len(last.events) : last.events[i].TICK <= last.current_tick
           /\ \A i \in 1..Len(eq_events) : eq_events[i].TICK > last.current_tick
           /\ {last.before[i] : i \in 1..Len(last.before)} =
                  {last.events[i] : i \in 1..Len(last.events)}
                  \cup {eq_events[i] : i \in 1..Len(eq_events)}

\* a call of get has returned three events, two of one tick and one of a
\* smaller tick that was put after them
C19_Witness ==
    /\ last.op = "eq.get"
    /\ \E i, j, k \in 1..Len(last.events) :
           /\ i < j /\ j < k
           /\ last.events[j].TICK = last.events[k].TICK
           /\ last.events[i].TICK < last.events[j].TICK
           /\ last.events[i].DATA > last.events[k].DATA

-----------------------------------------------------------------------------
(* Claims about Simulation and Tracker *)

\* the batches whose arrival fired in the last step
ArrivedBatches ==
    {last.fired[i].data : i \in {j \in 1..Len(last.fired) :
                                    last.fired[j].topic = "request.arrive"}}

\* item r is in the data of an event of the topic among the events q
InEvents(q, topic, r) ==
    \E i \in 1..Len(q) : q[i].topic = topic /\ InSeq(r, q[i].data)

\* no host of the data center has capacity for the VM
Unallocatable(vm) ==
    \A k \in 1..Len(DC_HOSTS) : ~has_capacity(World, DC_HOSTS[k], vm)

\* C14: when a request marked REQUIRED that no host can take arrives, the
\* step raises an error that ends run(); the request does not enter the
\* tracker's rejected list and no 'request.reject' is published for it
C14_RequiredAborts ==
    last.op = "sim.step" =>
        \A batch \in ArrivedBatches : \A j \in 1..Len(batch) :
            (/\ ITEMS[batch[j]].kind = "request"
             /\ ITEMS[batch[j]].REQUIRED
             /\ Unallocatable(ITEMS[batch[j]].VM)) =>
                /\ last.raised # ""
                /\ run_state.status = "aborted"
                /\ ~InSeq(batch[j], tracker.rejected)
                /\ ~InEvents(last.fired, "request.reject", batch[j])
                /\ ~InEvents(evq, "request.reject", batch[j])

\* a step was ended by the assertion on a required request that came after
\* a request that was rejected in the same batch
C14_Witness ==
    /\ last.op = "sim.step"
    /\ last.raised = "AssertionError"
    /\ \E batch \in ArrivedBatches : \E j, k \in 1..Len(batch) :
           /\ j < k
           /\ ITEMS[batch[k]].REQUIRED /\ Unallocatable(ITEMS[batch[k]].VM)
           /\ calls[batch[j]].ON_FAILURE = 1

\* C15: once a step has handled the arrival of a batch, the EXECUTE callback
\* of every item of the batch that has one, Request or plain Action, has
\* been invoked exactly once, whether or not the item was accepted
C15_ExecuteOnce ==
    (last.op = "sim.step" /\ last.raised = "") =>
        \A batch \in ArrivedBatches : \A j \in 1..Len(batch) :
            ITEMS[batch[j]].EXECUTE => calls[batch[j]].EXECUTE = 1

\* C16: the loop of run stops as soon as the duration has elapsed or the
\* system is settled (no event, no pending request, no mapped VM): no step
\* is taken once either holds, and without a duration the loop ends exactly
\* when the system is settled
C16_StopsWhenSettled ==
    /\ last.op = "sim.step" => (~last.completed /\ ~last.elapsed)
    /\ last.op = "sim.end" =>
           IF last.duration = 0 THEN last.completed
           ELSE last.completed \/ last.elapsed

\* the non-ignored requests of the batches that arrived in the last step
ArrivedRequests ==
    {r \in UNION {{batch[j] : j \in 1..Len(batch)} : batch \in ArrivedBatches} :
        ITEMS[r].kind = "request" /\ ~ITEMS[r].IGNORED}

\* C17: in a step, every event due at the current tick or before, those
\* that handlers publish for the current tick during the drain included, has
\* fired when the hosts are resumed; every request that arrived in the step
\* is then recorded as accepted or rejected and none is pending
C17_DrainBeforeResume ==
    (last.op = "sim.step" /\ last.raised = "") =>
        /\ ~last.due
        /\ ~last.pending
        /\ \A i \in 1..Len(last.fired) : last.fired[i].TICK <= last.t
        /\ \A r \in ArrivedRequests :
               InSeq(r, tracker.accepted) \/ InSeq(r, tracker.rejected)

\* a step in which a batch arrived and the rejection its handler published
\* fired before the resume phase
C17_Witness ==
    /\ last.op = "sim.step" /\ last.raised = ""
    /\ ArrivedRequests # {}
    /\ \E i, j \in 1..Len(last.fired) :
           /\ i < j
           /\ last.fired[i].topic = "request.arrive"
           /\ last.fired[j].topic = "request.reject"
           /\ last.fired[j].data # <<>>
           /\ last.fired[j].TICK = last.t

Counted(t) ==
    /\ Len(t.accepted) + Len(t.rejected) <= Len(t.arrived)
    /\ \A label \in {"arrived", "accepted", "rejected"} :
           /\ \A i, j \in 1..Len(t[label]) : i # j => t[label][i] # t[label][j]
           /\ \A i \in 1..Len(t[label]) :
                  /\ ~ITEMS[t[label][i]].IGNORED
                  /\ InSeq(t[label][i], t.arrived)
    /\ \A i \in 1..Len(t.accepted) : ~InSeq(t.accepted[i], t.rejected)

\* C20: at every point of a run accepted + rejected <= arrived, so that
\* pending = arrived - accepted - rejected >= 0; once a batch has been
\* processed every request of it that is not ignored is counted as arrived
\* and in exactly one of accepted and rejected; a request with IGNORED set
\* is counted nowhere although its VM is submitted for allocation
C20_TrackerCounts ==
    /\ Counted(tracker)
    /\ last.op = "sim.step" =>
           /\ \A i \in 1..Len(last.fired) : Counted(last.fired[i].tracker)
           /\ last.raised = "" =>
                  \A batch \in ArrivedBatches : \A j \in 1..Len(batch) :
                      ITEMS[batch[j]].kind = "request" =>
                          IF ITEMS[batch[j]].IGNORED
                          THEN /\ \E i \in 1..Len(last.submitted) :
                                      InSeq(ITEMS[batch[j]].VM, last.submitted[i])
                               /\ ~InSeq(batch[j], tracker.arrived)
                          ELSE /\ InSeq(batch[j], tracker.arrived)
                               /\ InSeq(batch[j], tracker.accepted)
                                      # InSeq(batch[j], tracker.rejected)

\* a step has processed a batch with an ignored request and one that is
\* not, and the tracker counts the second only
C20_Witness ==
    /\ last.op = "sim.step" /\ last.raised = ""
    /\ \E batch \in ArrivedBatches : \E j, k \in 1..Len(batch) :
           /\ ITEMS[batch[j]].kind = "request" /\ ITEMS[batch[j]].IGNORED
           /\ ITEMS[batch[k]].kind = "request" /\ ~ITEMS[batch[k]].IGNORED
           /\ InSeq(batch[k], tracker.rejected)
           /\ calls[batch[j]].ON_FAILURE = 1

\* the arrival ticks of the items a user holds
ArrivalTicks == {ITEMS[USER_REQUESTS[i]].ARRIVAL : i \in 1..Len(USER_REQUESTS)}

\* the positions in evque of the 'request.arrive' batches of tick t
ArriveBatches(t) ==
    {k \in 1..Len(evq) : evq[k].topic = "request.arrive" /\ evq[k].TICK = t}

\* C21: the constructor publishes exactly one 'request.arrive' batch for
\* each distinct arrival tick of USER.REQUESTS, holding every item of that
\* tick, in whatever order the items are listed
C21_OneBatchPerTick ==
    last.op = "sim.new" =>
        \A t \in ArrivalTicks :
            /\ Cardinality(ArriveBatches(t)) = 1
            /\ \A k \in ArriveBatches(t) : \A i \in 1..Len(USER_REQUESTS) :
                   ITEMS[USER_REQUESTS[i]].ARRIVAL = t =>
                       InSeq(USER_REQUESTS[i], evq[k].data)

\* C22: an OsFcfs scheduler whose only application has thread lengths
\* (4, 4, 4), all still to run, and which is given the cores (2, 2) for one
\* tick consumes (2, 2) and leaves the application with (2, 4, 4)
C22_FcfsScenario ==
    (/\ last.op = "fcfs.process"
     /\ last.pre.apps = <<1>>
     /\ last.pre.remained[1] = <<4, 4, 4>>
     /\ last.cpu = <<2, 2>>
     /\ last.duration = 1) =>
        /\ [i \in 1..2 |-> last.cpu[i] * last.duration - last.cycles[i]] = <<2, 2>>
        /\ fcfs.remained[1] = <<2, 4, 4>>

\* C23: a VM whose GPU profile needs 2 memory blocks, allocated on a host
\* whose 8-block physical GPU is entirely free, gets the blocks that start
\* at offset 4, and the GPU's free blocks are then {0, 1, 2, 3, 5, 6, 7}
C23_PlacedAtOffset4 ==
    \A h \in Pms : \A vm \in REQUESTED :
        (/\ last.op = "vmm.allocate" /\ last.host = h
         /\ last.vms = <<vm>> /\ last.results = <<TRUE>>
         /\ Truthy(VM_GPU[vm]) /\ VM_GPU[vm][2] = 2
         /\ last.steps[1].free_gpu = <<0..7>>) =>
            /\ vm_gpu[h][vm][2] = Placement(4, VM_GPU[vm])
            /\ free_gpu[h][1] = {0, 1, 2, 3, 5, 6, 7}

\* the profiles of the placement table that need 2 memory blocks
TwoBlockProfiles == {<<1, 2>>, <<2, 2>>}

\* a valid offset of profile p has its run of blocks inside the free set F
HasValidRun(p, F) ==
    \E i \in 1..Len(PROFILE_BLOCK(p)) :
        \A b \in 0..(p[2] - 1) : PROFILE_BLOCK(p)[i] + b \in F

\* the blocks of the host's physical GPU: those free and those guests hold
HostBlocks ==
    gpu_host.free_gpu[1] \cup UNION {g[2][2] : g \in gpu_host.vm_gpu}

\* C24 as stated: some free-block set with exactly 7 of the 8 blocks of a
\* physical GPU makes has_capacity reject a 2-block profile of the table
C24_Original ==
    \E F \in SUBSET HostBlocks :
        /\ Cardinality(F) = Cardinality(HostBlocks) - 1
        /\ \E p \in TwoBlockProfiles : get_free_gpu(<<F>>, p) = <<>>

\* C24: a 2-block profile is admitted exactly when one of its valid
\* offsets has its run inside the free set; it is rejected only when a
\* block of every valid run is taken, so with at most 8 minus the number of
\* its valid offsets blocks free (5 for (2, 2), 4 for (1, 2)), and never
\* with 7 blocks free; it can be rejected while 2 adjacent blocks are free
C24_RejectsWithoutValidRun ==
    (last.op = "gpu.allocate" /\ last.gpu \in TwoBlockProfiles) =>
        /\ last.result = HasValidRun(last.gpu, last.pre)
        /\ ~last.result =>
               Cardinality(last.pre) <= GPU_BLOCKS - Len(PROFILE_BLOCK(last.gpu))
        /\ Cardinality(last.pre) >= GPU_BLOCKS - 1 => last.result

\* profile (2, 2) is rejected with 5 blocks free, two of them adjacent
C24_Witness ==
    /\ last.op = "gpu.allocate" /\ last.gpu = <<2, 2>> /\ ~last.result
    /\ Cardinality(last.pre) = 5
    /\ \E b \in last.pre : b + 1 \in last.pre

\* profile (2, 2) is admitted with 7 of the 8 blocks free
C24_WitnessSeven ==
    /\ last.op = "gpu.allocate" /\ last.gpu = <<2, 2>> /\ last.result
    /\ Cardinality(last.pre) = GPU_BLOCKS - 1

\* the deployments whose containers ask for more than a whole GPU together
OverFullGpu ==
    {d \in Deployments :
        SumSeq(GPU_FRACTION[d]) > FULL_GPU}

\* C25: under the fractional control plane, a manage() call that computes
\* the requested resources of a deployment whose GPU fractions sum to more
\* than 1.0 (a pending one, with a node switched on) raises AssertionError;
\* the deployment is not left waiting without an error
C25_OverFullGpuRaises ==
    (/\ control_plane = "FractionalGPUControlPlaneRoundRobin"
     /\ last.op = "cp.manage"
     /\ \E i \in 1..Len(last.pre.pending) : last.pre.pending[i] \in OverFullGpu
     /\ \E n \in DOMAIN node_cpu : state[n] = STATE_ON) =>
        last.raised = "AssertionError"

\* C26: Controller.resume(cpu) first runs manage(): when manage() raises
\* nothing is consumed, and when it returns every scale request is resolved
\* and every deployment that was pending has had its event; the controller
\* then consumes cycles and keeps remaining cycles exactly as a plain App
\* with its LENGTH and EXPIRATION would; with ControlPlaneRoundRobin it is
\* stopped exactly when its remaining cycles are all zero or it has expired
C26_ControllerResume ==
    last.op = "controller.resume" =>
        /\ last.raised # "" =>
               /\ last.consumed = <<>>
               /\ remained[CONTROLLER] = last.pre_remained
        /\ last.raised = "" =>
               /\ last.scaled = <<>>
               /\ \A i \in 1..Len(last.pre.pending) :
                      \E j \in 1..Len(last.events) :
                          /\ last.events[j][2] = last.pre.pending[i]
                          /\ last.events[j][1] \in {"deployment.run", "deployment.pend",
                                                    "deployment.degrade"}
               /\ last.consumed = app_resume(last.pre_remained, last.cpu,
                                             APP_EXPIRATION[CONTROLLER], now).consumed
               /\ remained[CONTROLLER] = app_resume(last.pre_remained, last.cpu,
                                             APP_EXPIRATION[CONTROLLER], now).remained
               /\ last.post_stopped = is_stopped(remained[CONTROLLER],
                                                 APP_EXPIRATION[CONTROLLER], now)

\* a resume step in which manage() brought a pending deployment to run and
\* the controller consumed cycles without exhausting its length
C26_Witness ==
    /\ last.op = "controller.resume" /\ last.raised = ""
    /\ last.pre.pending # <<>>
    /\ \E j \in 1..Len(last.events) : last.events[j][1] = "deployment.run"
    /\ SumSeq(last.consumed) > 0
    /\ ~last.post_stopped

\* the positions in the events of the last call of the events of topic
\* for application a
EventsFor(topic, a) ==
    {i \in 1..Len(last.events) :
        last.events[i][1] = topic /\ last.events[i][4] = a}

\* C27: an application that OsTimeShared.resume finds stopped is moved from
\* the running list to the stopped list, and exactly one stop event is
\* published for it, with the topic of its own class ('app.stop',
\* 'container.stop', 'controller.stop'), the VM and the application; its
\* start event was published at its first resume, before the stop event
C27_StopEvent ==
    last.op = "os.resume" =>
        \A k \in 1..Len(last.apps) :
            LET a == last.apps[k]
            IN  is_stopped(remained[a], APP_EXPIRATION[a], now) =>
                    /\ ~InSeq(a, running_apps[last.vm])
                    /\ InSeq(a, stopped_apps[last.vm])
                    /\ Cardinality(EventsFor(Kind(a) \o ".stop", a)) = 1
                    /\ Cardinality(UNION {EventsFor(x \o ".stop", a) :
                                       x \in {"app", "container", "controller"}}) = 1
                    /\ \A i \in EventsFor(Kind(a) \o ".stop", a) :
                           last.events[i] = <<Kind(a) \o ".stop", now, last.vm, a>>
                    /\ IF last.pre_resumed[a]
                       THEN EventsFor(Kind(a) \o ".start", a) = {}
                       ELSE \E i \in EventsFor(Kind(a) \o ".start", a) :
                                /\ EventsFor(Kind(a) \o ".start", a) = {i}
                                /\ \A j \in EventsFor(Kind(a) \o ".stop", a) : i < j

-----------------------------------------------------------------------------
(* Claims about the phases of manage() *)

\* whether event e reports the handling of an entry of one of the three
\* lists of manage()
IsPhaseEvent(e) ==
    e[1] \in {"deployment.scale", "deployment.run", "deployment.degrade", "deployment.pend"}

\* the events of the last call that report the handling of a list entry, in
\* the order of their publication
PhaseEvents == SelectSeq(last.events, IsPhaseEvent)

\* whether the scale request for deployment d, found when the last call
\* started, asks for more replicas than were recorded
IsScaleUp(d) == d \in DOMAIN last.pre.count /\ replicas[d] > last.pre.count[d]

\* the deployments of the degraded list when phase 2 of the last call
\* starts: those queued before the call, then the scale-ups of phase 1
Phase2Queue ==
    [i \in 1..Len(last.pre.degraded) |-> last.pre.degraded[i][1]]
    \o SelectSeq(last.pre.scaled, IsScaleUp)

\* C28: every manage() call handles all scale requests, then all degraded
\* deployments, then all pending deployments, each entry queued at the
\* start of its phase exactly once and in the order of its list; a scale-up
\* emits 'deployment.scale' with the positive shortfall in phase 1, joins
\* the degraded list and is attempted in phase 2 of the same call
C28_ManagePhases ==
    last.op = "cp.manage" =>
        LET ns == Len(last.pre.scaled)
            nd == Len(Phase2Queue)
            np == Len(last.pre.pending)
        IN  /\ last.raised = ""
            /\ Len(PhaseEvents) = ns + nd + np
            /\ \A i \in 1..ns :
                   /\ PhaseEvents[i][1] \in {"deployment.scale", "deployment.run"}
                   /\ PhaseEvents[i][2] = last.pre.scaled[i]
                   /\ IsScaleUp(last.pre.scaled[i]) =>
                          PhaseEvents[i] =
                              <<"deployment.scale", last.pre.scaled[i],
                                replicas[last.pre.scaled[i]]
                                    - last.pre.count[last.pre.scaled[i]]>>
            /\ \A j \in 1..nd :
                   /\ PhaseEvents[ns + j][1] \in {"deployment.degrade", "deployment.run"}
                   /\ PhaseEvents[ns + j][2] = Phase2Queue[j]
            /\ \A k \in 1..np :
                   /\ PhaseEvents[ns + nd + k][1] \in
                          {"deployment.pend", "deployment.degrade", "deployment.run"}
                   /\ PhaseEvents[ns + nd + k][2] = last.pre.pending[k]

\* the same statement of the manage() calls that return
C28_PhasesOfReturnedCalls ==
    (last.op = "cp.manage" /\ last.raised = "") => C28_ManagePhases

\* the number of replicas of deployment d that the last call placed
Placed(d) ==
    NumReplicas(d) - (IF d \in DOMAIN last.pre.count THEN last.pre.count[d] ELSE 0)

\* whether the last call placed no replica of deployment d
NonePlaced(d) == Placed(d) = 0

\* the deployments that have an entry in the degraded list
DegradedSet == {degraded_deployments[i][1] : i \in 1..Len(degraded_deployments)}

\* C29: when manage() retries a pending deployment, with zero replicas
\* placed it is queued again at the back of the pending queue and
\* 'deployment.pend' is emitted; with some but not all placed it is entered
\* in the degraded list with the replicas still missing and
\* 'deployment.degrade' is emitted; with all placed it is in neither list
\* and 'deployment.run' is emitted; after manage() no deployment is in the
\* pending and in the degraded list at once
C29_PendingRetry ==
    (last.op = "cp.manage" /\ last.raised = "") =>
        /\ \A d \in DegradedSet : ~InSeq(d, pending_deployments)
        /\ (last.pre.scaled = <<>> /\ last.pre.degraded = <<>>) =>
               /\ pending_deployments = SelectSeq(last.pre.pending, NonePlaced)
               /\ Len(PhaseEvents) = Len(last.pre.pending)
               /\ \A k \in 1..Len(last.pre.pending) :
                      LET d == last.pre.pending[k]
                      IN  IF Placed(d) = 0
                          THEN /\ PhaseEvents[k] = <<"deployment.pend", d>>
                               /\ d \notin DegradedSet
                          ELSE IF Placed(d) < replicas[d]
                          THEN /\ PhaseEvents[k] =
                                      <<"deployment.degrade", d, replicas[d] - Placed(d)>>
                               /\ InSeq(<<d, replicas[d] - Placed(d)>>, degraded_deployments)
                          ELSE /\ PhaseEvents[k] = <<"deployment.run", d>>
                               /\ Placed(d) = replicas[d]
                               /\ d \notin DegradedSet

\* whether deployment d was stopped when the last call started: it had been
\* deployed, as its degraded entry or scale request tells, its replicas
\* were removed and its entry deleted, and it is not applied again
WasStopped(d) ==
    /\ d \notin DOMAIN last.pre.count
    /\ ~InSeq(d, last.pre.pending)
    /\ \/ \E i \in 1..Len(last.pre.degraded) : last.pre.degraded[i][1] = d
       \/ InSeq(d, last.pre.scaled)

\* C30: a deployment whose last replica was removed and whose entry was
\* deleted is stopped for good: unless it is applied again, no later
\* manage() call places a replica of it, and none emits 'deployment.run',
\* 'deployment.degrade', 'deployment.pend' or 'deployment.scale' for it
C30_StoppedIsTerminal ==
    last.op = "cp.manage" =>
        \A d \in Deployments :
            WasStopped(d) =>
                /\ NumReplicas(d) = 0
                /\ \A i \in 1..Len(PhaseEvents) : PhaseEvents[i][2] # d

-----------------------------------------------------------------------------
(* Claims about the control plane and the hosts' allocators *)

\* the calls of the control plane and the deliveries of 'container.stop'
CONTROL_PLANE_OPS == {"cp.apply", "cp.scale", "cp.delete", "cp.manage", "container.stop"}

\* C31: no operation of the control plane (apply, scale, delete, manage,
\* with the container placements and deletions they make, and the delivery
\* of 'container.stop') changes a host allocator's free cores, free RAM,
\* free GPU blocks, reservation maps or guest list
C31_AllocatorFrame ==
    [][last'.op \in CONTROL_PLANE_OPS =>
           UNCHANGED <<free_cpu, vm_cpu, free_ram, free_gpu, vm_gpu, guests>>]_vars

\* manage() has placed a replica on a node while a host holds a guest with
\* reserved cores, and the scheduler of the node has got the container
C31_Witness ==
    /\ last.op = "cp.manage"
    /\ Placed(1) > 0
    /\ guests[2] # <<>>
    /\ vm_cpu[2] # EmptyDict
    /\ \E c \in DOMAIN container_node : InSeq(ContainerApp(c), running_apps[NODES[1]])

\* C32: under ControlPlaneRoundRobin a container that declares no GPU
\* demand can be placed on every powered-on node with enough free CPU and
\* free RAM, whatever the node's GPU entry and whatever the node holds
C32_NoGpuPlaceable ==
    (ControllerMade /\ control_plane = "ControlPlaneRoundRobin") =>
        \A n \in NodeSet :
            \A sp \in {x \in UNION {{CONTAINER_SPECS[d][i] :
                                        i \in 1..Len(CONTAINER_SPECS[d])} :
                                    d \in Deployments} : ~Truthy(x.GPU)} :
                (/\ state[n] = STATE_ON
                 /\ node_cpu[n] >= sp.CPU[1]
                 /\ node_ram[n] >= sp.RAM[1])
                => has_sufficient_resources_for_container(Cluster, sp, n)

\* the replicas that the last call, delete(d, n), is to remove: all of them
\* when n is omitted, else n of them or as many as there are
ToRemove(d, n) ==
    IF n = -1 THEN last.pre.count[d] ELSE Min(n, last.pre.count[d])

\* the free CPU and the free RAM of all nodes together, in an accounting
FreeTotal(acc) == SumSeq([k \in 1..Len(NODES) |-> acc[NODES[k]]])

\* C33: delete(deployment, n) removes exactly min(n, current replica count)
\* replicas for every n >= 0, so none for n = 0, and all replicas when n is
\* omitted; the CPU and RAM of every container of a removed replica are
\* given back to the nodes exactly once
C33_DeleteCount ==
    (last.op = "cp.delete" /\ last.deployment \in DOMAIN last.pre.count) =>
        LET d == last.deployment
            removed == ToRemove(d, last.num_replicas)
            req == get_deployment_requested_resources(d)
        IN  /\ last.raised = ""
            /\ NumReplicas(d) = last.pre.count[d] - removed
            /\ FreeTotal(node_cpu) = FreeTotal(last.pre.node_cpu) + removed * req[1]
            /\ FreeTotal(node_ram) = FreeTotal(last.pre.node_ram) + removed * req[2]

-----------------------------------------------------------------------------
(* Claims about PlacementMaxProfile *)

\* the pairs (gpu, loc), the GPUs counted from 0, at which the whole block
\* run of the profile is free in gs
FreePairs(profile, gs) ==
    {<<i - 1, loc>> : i \in 1..Len(gs), loc \in 0..(GPU_BLOCKS - 1)} \cap
    {pr \in (0..(Len(gs) - 1)) \X (0..(GPU_BLOCKS - 1)) :
        /\ InSeq(pr[2], placements(profile))
        /\ slices(profile, pr[2]) \subseteq gs[pr[1] + 1]}

\* the number of valid placements of all known profiles that remain over
\* all GPUs once the profile's whole run at the pair pr is taken out of gs
Remaining(profile, gs, pr) ==
    LET reserved == [gs EXCEPT ![pr[1] + 1] = @ \ slices(profile, pr[2])]
    IN  SumSeq([i \in 1..Len(gs) |-> count_profiles_loc(profiles, reserved[i])])

\* C34: solve(request, gpus) returns, among the (GPU, offset) pairs at which
\* the requested profile's whole block run is free, one that maximises the
\* number of valid placements of all profiles that remain over all GPUs
\* after the whole run is reserved there; it returns () when there is no
\* such pair, and it leaves every GPU's free-block set as it was
C34_SolveMaximises ==
    last.op = "placement.solve" =>
        LET pairs == FreePairs(last.request, last.gpus)
        IN  /\ placement_gpus = last.gpus
            /\ (pairs = {}) <=> (last.result = <<>>)
            /\ pairs # {} =>
                   /\ last.result \in pairs
                   /\ \A pr \in pairs :
                          Remaining(last.request, last.gpus, pr)
                              <= Remaining(last.request, last.gpus, last.result)

-----------------------------------------------------------------------------
(* Claims about the resources of a host over many calls *)

\* the VMs in the guest list of host h
GuestSet(h) == {guests[h][i] : i \in 1..Len(guests[h])}

\* C35: after any sequence of allocate and deallocate calls on a host,
\* also calls that allocate a VM that is a guest already, the free cores
\* and the guests' reserved cores partition the host's cores, and the free
\* RAM plus the RAM of the guests is the host's RAM
C35_NoLeak ==
    \A h \in Pms :
        /\ DOMAIN vm_cpu[h] = GuestSet(h)
        /\ free_cpu[h] \cup UNION {vm_cpu[h][v] : v \in DOMAIN vm_cpu[h]}
               = Range(Len(PM_CPU[h]))
        /\ \A v \in DOMAIN vm_cpu[h] : vm_cpu[h][v] \cap free_cpu[h] = {}
        /\ \A v1, v2 \in DOMAIN vm_cpu[h] :
               v1 # v2 => vm_cpu[h][v1] \cap vm_cpu[h][v2] = {}
        /\ free_ram[h] + SumSeq([i \in 1..Cardinality(GuestSet(h)) |->
                                    VM_RAM[CHOOSE v \in GuestSet(h) :
                                        Cardinality({u \in GuestSet(h) : u < v}) = i - 1]])
               = PM_RAM[h]

\* the hosts that have VM vm in their guest list
HostsOf(vm) == {h \in Pms : InSeq(vm, guests[h])}

C37_NodeAccounting ==
    ControllerMade =>
        \A n \in NodeSet :
            /\ 0 <= node_cpu[n] /\ node_cpu[n] <= VM_CPU[n]
            /\ 0 <= node_ram[n] /\ node_ram[n] <= VM_RAM[n]
            /\ VM_CPU[n] - node_cpu[n] = RequestedOn(n, 1, DOMAIN container_node)
            /\ VM_RAM[n] - node_ram[n] = RequestedOn(n, 2, DOMAIN container_node)

\* C38: after every manage() call, whatever apply and scale commands came
\* before it, scaling of a degraded deployment included, no deployment has
\* more replicas recorded than deployment.replicas, and the degraded list
\* holds at most one entry for a deployment
C38_NeverOverDeployed ==
    (last.op = "cp.manage" /\ last.raised = "") =>
        /\ \A d \in DOMAIN deployment_replicas : NumReplicas(d) <= replicas[d]
        /\ \A i, j \in 1..Len(degraded_deployments) :
               degraded_deployments[i][1] = degraded_deployments[j][1] => i = j

\* C39: a container that the control plane has deleted, through delete() or
\* a scale-down, is no longer in the running list of its node's scheduler,
\* so every container a node runs is one the control plane records, and
\* the delivery of 'container.stop' never raises an error
C39_DeletedNotRunning ==
    /\ (last.op \in {"cp.delete", "cp.manage"} /\ last.raised = "") =>
           \A n \in NodeSet : \A c \in Containers :
               InSeq(ContainerApp(c), running_apps[n]) => c \in DOMAIN container_node
    /\ last.op = "container.stop" => last.raised = ""

\* C40: run() without a duration terminates: the hosts' cores have speed
\* 1 or more, every requested VM has a core, every application has finite
\* length and the requests arrive at finitely many ticks, so a run that has
\* started eventually returns with the system settled (unless a REQUIRED
\* request is rejected, which ends the run with AssertionError, or the
\* clock reaches MaxClock first)
C40_RunTerminates ==
    (run_state.status = "running" /\ run_state.duration = 0)
        ~> \/ run_state.status = "stopped"
           \/ run_state.status = "aborted" /\ last.raised = "AssertionError"
           \/ now >= MaxClock

=============================================================================
